---- MODULE Spec2Model ----
(***************************************************************************)
(* Wolf scorekeeper (assets/app.js, integer "all-pairs" snapshot):         *)
(* the rotation helper, the scoring engine and the scoreboard that calls   *)
(* it.                                                                     *)
(***************************************************************************)
EXTENDS Integers, Sequences, FiniteSets, TLC

VARIABLES game, screen, summary, loop,
          storage, isEditingSettings, partnerButtons, playerCountBtnsDisabled,
          caches, sw

\* the page's scorekeeping state
appVars == <<game, screen, summary, loop,
             storage, isEditingSettings, partnerButtons, playerCountBtnsDisabled>>

\* the origin's CacheStorage, and the service worker registration with the
\* page's view of it
swVars == <<caches, sw>>

vars == <<appVars, swVars>>

(* ---------------- bounds of the model ---------------- *)
MaxHoles == 4
\* the score keeper stays within the first MaxVisit holes and the last one ...
MaxVisit == 2
\* ... and fills in the first MaxEdited of them and the last one
MaxEdited == 1

(* ---------------- constants of the program ---------------- *)
NULL == "null"
POINTS_UNIT == 1
SCREENS == [load |-> "screenLoad", setup |-> "screenSetup",
            game |-> "screenGame", scoreboard |-> "screenScoreboard"]

AllIds == <<"p1", "p2", "p3", "p4", "p5">>
AllNames == <<"Player 1", "Player 2", "Player 3", "Player 4", "Player 5">>

(* ---------------- small helpers ---------------- *)
abs(x) == IF x < 0 THEN -x ELSE x

\* Array.prototype.slice(from, to) on a 0-based array
slice(arr, from, to) == SubSeq(arr, from + 1, to)

\* variant: only the first element is compared
includes_first(arr, x) == arr # <<>> /\ arr[1] = x

includes(arr, x) == \E k \in DOMAIN arr : arr[k] = x

Range(arr) == {arr[k] : k \in DOMAIN arr}

RECURSIVE SumOver(_, _)
SumOver(f, S) ==
  IF S = {} THEN 0
  ELSE LET x == CHOOSE y \in S : TRUE IN f[x] + SumOver(f, S \ {x})

(* ---------------- game state ---------------- *)
emptyHole == [partnerId |-> NULL, loneWolf |-> FALSE, result |-> NULL, blind |-> FALSE]

buildPlayers(pc) == [k \in 1..pc |-> [id |-> AllIds[k], name |-> AllNames[k]]]

playerIdsOf(g) == [k \in 1..Len(g.players) |-> g.players[k].id]

(* ---------------- rotation ---------------- *)
\* variant: the offset is taken modulo n - 1
rotatedOrderForHole_shortCycle(holeIndex) ==
  LET n      == Len(game.players)
      offset == holeIndex % (n - 1)
      base   == playerIdsOf(game)
      cut    == (n - offset) % n
  IN  slice(base, cut, n) \o slice(base, 0, cut)

\* variant: rotates to the left
rotatedOrderForHole_left(holeIndex) ==
  LET n      == Len(game.players)
      offset == holeIndex % n
      base   == playerIdsOf(game)
      cut    == offset
  IN  slice(base, cut, n) \o slice(base, 0, cut)

rotatedOrderForHole(holeIndex) ==
  LET n      == Len(game.players)
      offset == holeIndex % n
      base   == playerIdsOf(game)
      cut    == (n - offset) % n
  IN  slice(base, cut, n) \o slice(base, 0, cut)

\* variant: the second slice stops one short
orderOfHole_short(g, i) ==
  LET n      == Len(g.players)
      offset == i % n
      base   == playerIdsOf(g)
      cut    == (n - offset) % n
  IN  slice(base, cut, n) \o slice(base, 0, cut - 1)

\* variant: rotates to the left
orderOfHole_left(g, i) ==
  LET n      == Len(g.players)
      offset == i % n
      base   == playerIdsOf(g)
      cut    == offset
  IN  slice(base, cut, n) \o slice(base, 0, cut)

\* the copy of the rotation inlined in computeScores
orderOfHole(g, i) ==
  LET n      == Len(g.players)
      offset == i % n
      base   == playerIdsOf(g)
      cut    == (n - offset) % n
  IN  slice(base, cut, n) \o slice(base, 0, cut)

(* ---------------- scoring engine ---------------- *)
zeroByPlayer(g) == [pid \in Range(playerIdsOf(g)) |-> 0]

\* variant: lost accumulates the signed delta
applyDelta_signedLost(acc, pid, deltaUnits) ==
  IF deltaUnits = 0 THEN acc
  ELSE [acc EXCEPT !.deltaByPlayer[pid] = @ + deltaUnits,
                   !.totals[pid] = @ + deltaUnits,
                   !.won[pid]  = IF deltaUnits > 0 THEN @ + deltaUnits ELSE @,
                   !.lost[pid] = IF deltaUnits < 0 THEN @ + deltaUnits ELSE @]

\* variant: a loss is not taken off the running total
applyDelta_totalsGainOnly(acc, pid, deltaUnits) ==
  IF deltaUnits = 0 THEN acc
  ELSE [acc EXCEPT !.deltaByPlayer[pid] = @ + deltaUnits,
                   !.totals[pid] = IF deltaUnits > 0 THEN @ + deltaUnits ELSE @,
                   !.won[pid]  = IF deltaUnits > 0 THEN @ + deltaUnits ELSE @,
                   !.lost[pid] = IF deltaUnits < 0 THEN @ + abs(deltaUnits) ELSE @]

\* acc = [deltaByPlayer, totals, won, lost]
applyDelta(acc, pid, deltaUnits) ==
  IF deltaUnits = 0 THEN acc
  ELSE [acc EXCEPT !.deltaByPlayer[pid] = @ + deltaUnits,
                   !.totals[pid] = @ + deltaUnits,
                   !.won[pid]  = IF deltaUnits > 0 THEN @ + deltaUnits ELSE @,
                   !.lost[pid] = IF deltaUnits < 0 THEN @ + abs(deltaUnits) ELSE @]

\* pids.forEach(pid => applyDelta(deltaByPlayer, pid, deltaUnits))
RECURSIVE forEachApplyDelta(_, _, _)
forEachApplyDelta(acc, pids, deltaUnits) ==
  IF pids = <<>> THEN acc
  ELSE forEachApplyDelta(applyDelta(acc, Head(pids), deltaUnits), Tail(pids), deltaUnits)

\* variant: the hole's flag alone decides
isBlindOf_flagOnly(g, h) == h.blind

isBlindOf(g, h) == g.options.blindWolf /\ h.blind

baseWagerPerPlayerOf(g, h) == 1 + (IF isBlindOf(g, h) THEN 1 ELSE 0)

\* variant: the blind surcharge doubles the carried stake
wagerPerPlayerOf_doubling(g, carryPerPlayer, h) ==
  ((IF g.options.pushTies THEN carryPerPlayer ELSE 0) + 1) * baseWagerPerPlayerOf(g, h)

wagerPerPlayerOf(g, carryPerPlayer, h) ==
  (IF g.options.pushTies THEN carryPerPlayer ELSE 0) + baseWagerPerPlayerOf(g, h)

\* variant: a win leaves the carry in place
carryAfterWin_kept(g, carryPerPlayer) == carryPerPlayer

\* carryPerPlayer after a hole with a winning side
carryAfterWin(g, carryPerPlayer) == IF g.options.pushTies THEN 0 ELSE carryPerPlayer

\* variant: a tie pushes whether or not pushTies is on
carryAfterTie_unconditional(g, carryPerPlayer) == carryPerPlayer + 1

\* carryPerPlayer after a tied hole
carryAfterTie(g, carryPerPlayer) ==
  IF g.options.pushTies THEN carryPerPlayer + 1 ELSE carryPerPlayer

\* variant: a hole counts as not scored only when it is not a lone-wolf hole
notScored_unlessLone(h) == h.result = NULL /\ ~h.loneWolf

\* !h.result
notScored(h) == h.result = NULL

\* variant: each winner is credited one wager, whatever the number of losers
winnerCredit_single(wagerUnits, loserCount) == wagerUnits

\* what each winner receives
winnerCredit(wagerUnits, loserCount) == wagerUnits * loserCount

\* variant: each loser pays one wager, whatever the number of winners
loserDebit_single(wagerUnits, winnerCount) == -wagerUnits

\* variant: the losers' debit is dropped
loserDebit_none(wagerUnits, winnerCount) == 0

\* what each loser pays (negative)
loserDebit(wagerUnits, winnerCount) == (-wagerUnits) * winnerCount

\* the team hole has no usable partner
invalidPartner(partnerId, wolfId) == partnerId = NULL \/ partnerId = wolfId

\* The variables of computeScores before the first iteration.  The locals of
\* an iteration (order .. losers) are kept with the accumulators, a local the
\* iteration does not reach being recorded as 0 / <<>>; pushed is the entry
\* the iteration pushes on perHole.
loopStart(g) ==
  [ totals |-> zeroByPlayer(g), won |-> zeroByPlayer(g), lost |-> zeroByPlayer(g),
    carryPerPlayer |-> 0,
    order |-> <<>>, wolfId |-> NULL,
    wagerPerPlayer |-> 0, winners |-> <<>>, losers |-> <<>>,
    pushed |-> <<>> ]

\* variant: the entry carries the 0-based index
notScoredEntry_zeroBased(g, i) ==
  [hole |-> i, status |-> "NOT_SCORED", statusLabel |-> "Not scored",
   deltaByPlayer |-> zeroByPlayer(g)]

notScoredEntry(g, i) ==
  [hole |-> i + 1, status |-> "NOT_SCORED", statusLabel |-> "Not scored",
   deltaByPlayer |-> zeroByPlayer(g)]

tieEntry(g, i) ==
  [hole |-> i + 1, status |-> "TIE", statusLabel |-> "Tie",
   deltaByPlayer |-> zeroByPlayer(g)]

\* one iteration of the for loop of computeScores, on hole i (0-based)
scoreHole(g, st, i) ==
  LET h        == IF i + 1 \in DOMAIN g.holes THEN g.holes[i + 1] ELSE emptyHole
      order    == orderOfHole(g, i)
      wolfId   == order[Len(order)]
      others   == slice(order, 0, Len(order) - 1)
      begun    == [st EXCEPT !.order = order, !.wolfId = wolfId,
                             !.wagerPerPlayer = 0, !.winners = <<>>, !.losers = <<>>]
  IN
  IF notScored(h) THEN
    [begun EXCEPT !.pushed = notScoredEntry(g, i)]
  ELSE IF h.result = "TIE" THEN
    [begun EXCEPT !.carryPerPlayer = carryAfterTie(g, @),
                  !.pushed = tieEntry(g, i)]
  ELSE
    LET wagerPerPlayer == wagerPerPlayerOf(g, st.carryPerPlayer, h)
        wagerUnits     == wagerPerPlayer * POINTS_UNIT
        carryAfter     == carryAfterWin(g, st.carryPerPlayer)
        isLone         == h.loneWolf
        partnerId      == h.partnerId
    IN
    IF ~isLone /\ invalidPartner(partnerId, wolfId) THEN
      [begun EXCEPT !.carryPerPlayer = carryAfter,
                    !.wagerPerPlayer = wagerPerPlayer,
                    !.pushed = notScoredEntry(g, i)]
    ELSE
      LET wolfWon   == (h.result = "WOLF")
          wolfTeam  == <<wolfId, partnerId>>
          notInWolfTeam(pid) == ~includes(wolfTeam, pid)
          otherTeam == SelectSeq(order, notInWolfTeam)
          winners   == IF isLone THEN (IF wolfWon THEN <<wolfId>> ELSE others)
                       ELSE (IF wolfWon THEN wolfTeam ELSE otherTeam)
          losers    == IF isLone THEN (IF wolfWon THEN others ELSE <<wolfId>>)
                       ELSE (IF wolfWon THEN otherTeam ELSE wolfTeam)
          statusLabel == IF isLone
                         THEN (IF wolfWon THEN "Lone Wolf wins" ELSE "Little Piggie win")
                         ELSE (IF wolfWon THEN "Wolf Pack wins" ELSE "Little Piggies win")
          winnerCount == Len(winners)
          loserCount  == Len(losers)
          acc0 == [deltaByPlayer |-> zeroByPlayer(g), totals |-> st.totals,
                   won |-> st.won, lost |-> st.lost]
          acc1 == forEachApplyDelta(acc0, winners, winnerCredit(wagerUnits, loserCount))
          acc2 == forEachApplyDelta(acc1, losers, loserDebit(wagerUnits, winnerCount))
      IN
      [ totals |-> acc2.totals, won |-> acc2.won, lost |-> acc2.lost,
        carryPerPlayer |-> carryAfter,
        order |-> order, wolfId |-> wolfId,
        wagerPerPlayer |-> wagerPerPlayer, winners |-> winners, losers |-> losers,
        pushed |-> [hole |-> i + 1,
                    status |-> IF h.result = "WOLF" THEN "WOLF_WIN" ELSE "OTHER_WIN",
                    statusLabel |-> statusLabel,
                    deltaByPlayer |-> acc2.deltaByPlayer] ]

\* the for loop: element k is the loop's variables at the end of iteration k-1
RECURSIVE loopTrace(_, _)
loopTrace(g, k) ==
  IF k = 0 THEN <<>>
  ELSE LET tr   == loopTrace(g, k - 1)
           prev == IF k = 1 THEN loopStart(g) ELSE tr[k - 1]
       IN  Append(tr, scoreHole(g, prev, k - 1))

\* variant: only holes with a winning side count
isScoredEntry_winsOnly(e) == e.status \in {"WOLF_WIN", "OTHER_WIN"}

isScoredEntry(e) == e.status # "NOT_SCORED"

\* perHole once the loop has run: the entries pushed, in order
perHoleOf(tr) == [k \in 1..Len(tr) |-> tr[k].pushed]

summaryOf(g, tr) ==
  LET st      == IF tr = <<>> THEN loopStart(g) ELSE tr[Len(tr)]
      perHole == perHoleOf(tr)
  IN  [ totals |-> st.totals, won |-> st.won, lost |-> st.lost,
        holesScoredCount |-> Len(SelectSeq(perHole, isScoredEntry)),
        perHole |-> perHole ]

computeScores(g) == summaryOf(g, loopTrace(g, g.holeCount))

\* variant: scoring clears the blind flags of the holes it visits
gameAfterComputeScores_clearsBlind(g) ==
  [g EXCEPT !.holes = [k \in DOMAIN g.holes |-> [g.holes[k] EXCEPT !.blind = FALSE]]]

\* the object passed to computeScores once it has returned: the function reads
\* g, g.players, g.options and g.holes[i] and assigns to none of them
gameAfterComputeScores(g) == g

(* ---------------- scoreboard ---------------- *)
clamp(n, min, max) ==
  LET m == IF max < n THEN max ELSE n IN IF min > m THEN min ELSE m

\* variant: a holes array that is too long is left as it is
ensureHolesLength_padOnly(g) ==
  LET padded == [k \in 1..(IF Len(g.holes) < g.holeCount THEN g.holeCount ELSE Len(g.holes)) |->
                   IF k <= Len(g.holes) THEN g.holes[k] ELSE emptyHole]
  IN  [g EXCEPT !.holes = padded,
                !.currentHoleIndex = clamp(@, 0, g.holeCount - 1)]

ensureHolesLength(g) ==
  LET padded == [k \in 1..(IF Len(g.holes) < g.holeCount THEN g.holeCount ELSE Len(g.holes)) |->
                   IF k <= Len(g.holes) THEN g.holes[k] ELSE emptyHole]
      cut    == IF Len(padded) > g.holeCount THEN slice(padded, 0, g.holeCount) ELSE padded
  IN  [g EXCEPT !.holes = cut,
                !.currentHoleIndex = clamp(@, 0, g.holeCount - 1)]

noSummary == [totals |-> <<>>, won |-> <<>>, lost |-> <<>>, holesScoredCount |-> 0, perHole |-> <<>>]

newGame(pc, hc, pt, bw, hs) ==
  [playerCount |-> pc, players |-> buildPlayers(pc), holeCount |-> hc,
   options |-> [pushTies |-> pt, blindWolf |-> bw],
   holes |-> hs, currentHoleIndex |-> 0, finishedAt |-> NULL]

\* the hole counts offered on the setup screen
suggested(playerCount) == IF playerCount = 4 THEN {8, 12, 16, 20} ELSE {10, 15, 20, 25}

\* every record a hole can hold
HoleRecords(pc) ==
  [partnerId : {NULL} \cup {AllIds[k] : k \in 1..pc},
   loneWolf  : BOOLEAN,
   result    : {NULL, "TIE", "WOLF", "OTHER"},
   blind     : BOOLEAN]

hole(partnerId, loneWolf, result, blind) ==
  [partnerId |-> partnerId, loneWolf |-> loneWolf, result |-> result, blind |-> blind]

\* the records used for the holes of a short game: unscored with the other
\* fields set, tied, tied blind, lone and blind, team with p1, team with the
\* last player (the Wolf of hole 1), team without a partner
PlayedRecords(pc) ==
  { hole(NULL, FALSE, "TIE", FALSE),
    hole(NULL, TRUE, "TIE", TRUE),
    hole(NULL, TRUE, "WOLF", TRUE),
    hole("p1", TRUE, NULL, TRUE),
    hole("p1", FALSE, "WOLF", FALSE),
    hole(NULL, FALSE, "WOLF", FALSE),
    hole(AllIds[pc], FALSE, "OTHER", FALSE) }

\* a game of a size the setup screen offers with one hole filled in, anywhere,
\* with any record
InitOneHole ==
  \E pc \in {4, 5}, pt \in BOOLEAN, bw \in BOOLEAN :
    \E hc \in suggested(pc) :
      \E pos \in 1..hc, rec \in HoleRecords(pc) :
        game = newGame(pc, hc, pt, bw, [k \in 1..hc |-> IF k = pos THEN rec ELSE emptyHole])

\* a short game, every hole filled in from PlayedRecords
InitShort ==
  \E pc \in {4, 5}, pt \in BOOLEAN, bw \in BOOLEAN :
    \E hc \in 1..MaxHoles :
      \E hs \in [1..hc -> PlayedRecords(pc)] :
        game = newGame(pc, hc, pt, bw, hs)

\* let game = null
noGame == newGame(0, 0, FALSE, FALSE, <<>>)

\* localStorage without STORAGE_KEY
noStorage == [kind |-> "absent", hasPlayers |-> FALSE, hasHoles |-> FALSE, game |-> noGame]

\* no service worker is modelled: the scorekeeping specifications leave the
\* registration and the caches alone
noWorker == [active |-> "none"]

Init ==
  /\ (InitOneHole \/ InitShort)
  /\ screen = SCREENS.game
  /\ summary = noSummary
  /\ loop = <<>>
  /\ storage = noStorage
  /\ isEditingSettings = FALSE
  /\ partnerButtons = <<>>
  /\ playerCountBtnsDisabled = FALSE
  /\ caches = {}
  /\ sw = noWorker

\* btnViewScores: showScreen(scoreboard); renderScoreboard()
btnViewScores ==
  /\ screen = SCREENS.game
  /\ screen' = SCREENS.scoreboard
  /\ LET g == ensureHolesLength(game)
     IN  /\ loop' = loopTrace(g, g.holeCount)
         /\ summary' = summaryOf(g, loop')
         /\ game' = gameAfterComputeScores(g)
  /\ UNCHANGED <<storage, isEditingSettings, partnerButtons, playerCountBtnsDisabled>>
  /\ UNCHANGED swVars

Next == btnViewScores

Spec == Init /\ [][Next]_vars

(* ---------------- earlier engines: points in sixths, pooled pot ---------------- *)
\* POINTS_UNIT of the earlier snapshots: points are stored as sixths
POINTS_UNIT_sixths == 6

\* the number of holes of the games the earlier engines are run on
MaxPotHoles == 2

\* for (const pid of pids) totals[pid] += amount
RECURSIVE addToEach(_, _, _)
addToEach(totals, pids, amount) ==
  IF pids = <<>> THEN totals
  ELSE addToEach([totals EXCEPT ![Head(pids)] = @ + amount], Tail(pids), amount)

\* winners.forEach((pid, idx) => totals[pid] += shareUnits + (idx === 0 ? remainder : 0))
distribute(totals, winners, shareUnits, remainder) ==
  IF winners = <<>> THEN totals
  ELSE addToEach([totals EXCEPT ![Head(winners)] = @ + shareUnits + remainder],
                 Tail(winners), shareUnits)

\* Math.floor(a / b) for a >= 0, b > 0
floorDiv(a, b) == a \div b

\* the locals of an iteration the iteration did not reach
noPot == [winners |-> <<>>, losers |-> <<>>, potUnits |-> 0, shareUnits |-> 0,
          remainder |-> 0]

\* the variables of the pooled computeScores before the first iteration
pooledStart(g) ==
  [totals |-> zeroByPlayer(g), pushCount |-> 0, before |-> zeroByPlayer(g),
   status |-> "start", pot |-> noPot, pushed |-> <<>>]

\* one iteration of the pooled computeScores (lone wolf holes are settled
\* directly, team holes through the pot), on hole i (0-based)
pooledScoreHole(g, st, i) ==
  LET h         == IF i + 1 \in DOMAIN g.holes THEN g.holes[i + 1] ELSE emptyHole
      order     == orderOfHole(g, i)
      wolfId    == order[Len(order)]
      others    == slice(order, 0, Len(order) - 1)
      baseMult  == IF g.options.pushTies THEN st.pushCount + 1 ELSE 1
      blindMult == IF g.options.blindWolf /\ h.blind THEN 2 ELSE 1
      mult      == baseMult * blindMult
      multUnits == mult * POINTS_UNIT_sixths
      begun     == [st EXCEPT !.before = st.totals, !.pot = noPot]
      reset     == IF g.options.pushTies THEN 0 ELSE st.pushCount
  IN
  IF h.result = NULL THEN
    [begun EXCEPT !.status = "unscored",
                  !.pushed = [hole |-> i + 1, mult |-> mult, pushCount |-> st.pushCount,
                              desc |-> "Not scored"]]
  ELSE IF h.result = "TIE" THEN
    [begun EXCEPT !.status = "tie",
                  !.pushCount = IF g.options.pushTies THEN @ + 1 ELSE @,
                  !.pushed = [hole |-> i + 1, mult |-> mult, pushCount |-> st.pushCount,
                              desc |-> "Tie"]]
  ELSE IF h.loneWolf THEN
    LET k          == Len(others)
        swingUnits == k * 1 * multUnits
        wolfWon    == h.result = "WOLF"
        t1 == [st.totals EXCEPT ![wolfId] = IF wolfWon THEN @ + swingUnits ELSE @ - swingUnits]
        t2 == addToEach(t1, others, IF wolfWon THEN -(1 * multUnits) ELSE 1 * multUnits)
    IN  [begun EXCEPT !.status = "lone", !.totals = t2, !.pushCount = reset,
                      !.pushed = [hole |-> i + 1, mult |-> mult, pushCount |-> 0,
                                  desc |-> (IF wolfWon THEN "Lone Wolf win (+"
                                            ELSE "Lone Wolf loss (-")
                                           \o ToString(k) \o " each)"]]
  ELSE IF h.partnerId = NULL \/ h.partnerId = wolfId THEN
    [begun EXCEPT !.status = "invalid", !.pushCount = reset,
                  !.pushed = [hole |-> i + 1, mult |-> mult, pushCount |-> 0,
                              desc |-> "Invalid partner (not scored)"]]
  ELSE
    LET wolfTeam   == <<wolfId, h.partnerId>>
        notInWolfTeam(pid) == ~includes(wolfTeam, pid)
        otherTeam  == SelectSeq(order, notInWolfTeam)
        wolfWon    == h.result = "WOLF"
        winners    == IF wolfWon THEN wolfTeam ELSE otherTeam
        losers     == IF wolfWon THEN otherTeam ELSE wolfTeam
        potUnits   == Len(losers) * 1 * multUnits
        shareUnits == floorDiv(potUnits, Len(winners))
        remainder  == potUnits - (shareUnits * Len(winners))
        t1 == addToEach(st.totals, losers, -(1 * multUnits))
        t2 == distribute(t1, winners, shareUnits, remainder)
    IN  [begun EXCEPT !.status = "team", !.totals = t2, !.pushCount = reset,
                      !.pot = [winners |-> winners, losers |-> losers,
                               potUnits |-> potUnits, shareUnits |-> shareUnits,
                               remainder |-> remainder],
                      !.pushed = [hole |-> i + 1, mult |-> mult, pushCount |-> 0,
                                  desc |-> (IF wolfWon THEN "Wolf Team win"
                                            ELSE "Other Team win")
                                           \o " (pot " \o ToString(Len(losers)) \o ")"]]

RECURSIVE pooledTrace(_, _)
pooledTrace(g, k) ==
  IF k = 0 THEN <<>>
  ELSE LET tr   == pooledTrace(g, k - 1)
           prev == IF k = 1 THEN pooledStart(g) ELSE tr[k - 1]
       IN  Append(tr, pooledScoreHole(g, prev, k - 1))

\* the variables of the pot computeScores before the first iteration
potStart(g) ==
  [totals |-> zeroByPlayer(g), carryPerPlayer |-> 0, before |-> zeroByPlayer(g),
   status |-> "start", pot |-> noPot, pushed |-> <<>>]

\* one iteration of the pot computeScores (every hole with a winning side,
\* lone or team, goes through the pot), on hole i (0-based)
potScoreHole(g, st, i) ==
  LET h        == IF i + 1 \in DOMAIN g.holes THEN g.holes[i + 1] ELSE emptyHole
      order    == orderOfHole(g, i)
      wolfId   == order[Len(order)]
      others   == slice(order, 0, Len(order) - 1)
      isBlind  == g.options.blindWolf /\ h.blind
      baseWagerPerPlayer == IF isBlind THEN 2 ELSE 1
      begun    == [st EXCEPT !.before = st.totals, !.pot = noPot]
      meta(c)  == [carryPerPlayer |-> c, baseWagerPerPlayer |-> baseWagerPerPlayer,
                   isBlind |-> isBlind]
  IN
  IF h.result = NULL THEN
    [begun EXCEPT !.status = "unscored",
                  !.pushed = [hole |-> i + 1, desc |-> "Not scored",
                              meta |-> meta(st.carryPerPlayer)]]
  ELSE IF h.result = "TIE" THEN
    LET carry == IF g.options.pushTies THEN st.carryPerPlayer + 1 ELSE st.carryPerPlayer
        tail  == " Carry is now " \o ToString(carry) \o "/player."
    IN  [begun EXCEPT !.status = "tie", !.carryPerPlayer = carry,
                      !.pushed = [hole |-> i + 1,
                                  desc |-> IF ~g.options.pushTies THEN "Tie"
                                           ELSE IF isBlind
                                           THEN "Tie - push +1/player (Blind extra refunded)." \o tail
                                           ELSE "Tie - push +1/player." \o tail,
                                  meta |-> meta(carry)]]
  ELSE
    LET wagerPerPlayer == (IF g.options.pushTies THEN st.carryPerPlayer ELSE 0)
                          + baseWagerPerPlayer
        wagerUnits     == wagerPerPlayer * POINTS_UNIT_sixths
        carry          == IF g.options.pushTies THEN 0 ELSE st.carryPerPlayer
        wolfWon        == h.result = "WOLF"
    IN
    IF ~h.loneWolf /\ (h.partnerId = NULL \/ h.partnerId = wolfId) THEN
      [begun EXCEPT !.status = "invalid", !.carryPerPlayer = carry,
                    !.pushed = [hole |-> i + 1, desc |-> "Invalid partner (not scored)",
                                meta |-> meta(0)]]
    ELSE
      LET wolfTeam   == <<wolfId, h.partnerId>>
          notInWolfTeam(pid) == ~includes(wolfTeam, pid)
          otherTeam  == SelectSeq(order, notInWolfTeam)
          winners    == IF h.loneWolf THEN (IF wolfWon THEN <<wolfId>> ELSE others)
                        ELSE (IF wolfWon THEN wolfTeam ELSE otherTeam)
          losers     == IF h.loneWolf THEN (IF wolfWon THEN others ELSE <<wolfId>>)
                        ELSE (IF wolfWon THEN otherTeam ELSE wolfTeam)
          t1         == addToEach(st.totals, losers, -wagerUnits)
          potUnits   == Len(losers) * wagerUnits
          shareUnits == floorDiv(potUnits, Len(winners))
          remainder  == potUnits - (shareUnits * Len(winners))
          t2         == distribute(t1, winners, shareUnits, remainder)
          potPoints  == potUnits \div POINTS_UNIT_sixths
          whoWon     == IF wolfWon
                        THEN (IF h.loneWolf THEN "Lone Wolf win" ELSE "Wolf Team win")
                        ELSE (IF h.loneWolf THEN "Lone Wolf loss (others win)"
                              ELSE "Other Team win")
      IN  [begun EXCEPT !.status = IF h.loneWolf THEN "lone" ELSE "team",
                        !.totals = t2, !.carryPerPlayer = carry,
                        !.pot = [winners |-> winners, losers |-> losers,
                                 potUnits |-> potUnits, shareUnits |-> shareUnits,
                                 remainder |-> remainder],
                        !.pushed = [hole |-> i + 1,
                                    desc |-> whoWon \o (IF isBlind THEN " (Blind)" ELSE "")
                                             \o " - wager " \o ToString(wagerPerPlayer)
                                             \o "/player, net pot " \o ToString(potPoints)
                                             \o " (split " \o ToString(Len(winners))
                                             \o " ways)",
                                    meta |-> meta(0)]]

RECURSIVE potTrace(_, _)
potTrace(g, k) ==
  IF k = 0 THEN <<>>
  ELSE LET tr   == potTrace(g, k - 1)
           prev == IF k = 1 THEN potStart(g) ELSE tr[k - 1]
       IN  Append(tr, potScoreHole(g, prev, k - 1))

\* return { totals, perHole }
pooledSummaryOf(g, start, tr) ==
  [totals  |-> IF tr = <<>> THEN start.totals ELSE tr[Len(tr)].totals,
   perHole |-> [k \in 1..Len(tr) |-> tr[k].pushed]]

\* the records of the holes the earlier engines are run on: tied, lone wolf
\* won and lost, lone and blind lost, team with p1 won and lost, team
\* without a partner
PotRecords ==
  { hole(NULL, FALSE, "TIE", FALSE),
    hole(NULL, TRUE, "WOLF", FALSE),
    hole(NULL, TRUE, "OTHER", FALSE),
    hole(NULL, TRUE, "OTHER", TRUE),
    hole("p1", FALSE, "WOLF", FALSE),
    hole("p1", FALSE, "OTHER", FALSE),
    hole(NULL, FALSE, "WOLF", FALSE) }

\* a game of 4 or 5 players with every hole filled in from PotRecords
InitPot ==
  /\ \E pc \in {4, 5}, pt \in BOOLEAN, bw \in BOOLEAN :
       \E hc \in 1..MaxPotHoles :
         \E hs \in [1..hc -> PotRecords] :
           game = newGame(pc, hc, pt, bw, hs)
  /\ screen = SCREENS.game
  /\ summary = noSummary
  /\ loop = <<>>
  /\ storage = noStorage
  /\ isEditingSettings = FALSE
  /\ partnerButtons = <<>>
  /\ playerCountBtnsDisabled = FALSE
  /\ caches = {}
  /\ sw = noWorker

\* the scoreboard of the snapshot with the pooled computeScores
pooledViewScores ==
  /\ screen = SCREENS.game
  /\ screen' = SCREENS.scoreboard
  /\ loop' = pooledTrace(game, game.holeCount)
  /\ summary' = pooledSummaryOf(game, pooledStart(game), loop')
  /\ UNCHANGED <<game, storage, isEditingSettings, partnerButtons, playerCountBtnsDisabled>>
  /\ UNCHANGED swVars

\* the scoreboard of the snapshot with the pot computeScores
potViewScores ==
  /\ screen = SCREENS.game
  /\ screen' = SCREENS.scoreboard
  /\ loop' = potTrace(game, game.holeCount)
  /\ summary' = pooledSummaryOf(game, potStart(game), loop')
  /\ UNCHANGED <<game, storage, isEditingSettings, partnerButtons, playerCountBtnsDisabled>>
  /\ UNCHANGED swVars

NextPot == pooledViewScores \/ potViewScores

SpecPot == InitPot /\ [][NextPot]_vars

(* ---------------- game screen, setup screen, storage ---------------- *)
\* no snapshot: h._editBaseline is null or was never set
NoSnapshot == <<>>

\* holeSnapshot: the four fields of the hole, normalised, in a fixed order
holeSnapshot(h) == <<h.partnerId, h.loneWolf, h.blind, h.result>>

\* h._editBaseline (a hole that was never edited has no such field)
editBaselineOf(h) == IF "editBaseline" \in DOMAIN h THEN h.editBaseline ELSE NoSnapshot

\* h._savedSnapshot (a hole that was never saved has no such field)
savedSnapshotOf(h) == IF "savedSnapshot" \in DOMAIN h THEN h.savedSnapshot ELSE NoSnapshot

\* the hole object with the four fields of h and the two markers; a marker
\* that is null is written like one that was never set
holeWithMarkers(h, baseline, saved) ==
  LET core == [partnerId |-> h.partnerId, loneWolf |-> h.loneWolf,
               result |-> h.result, blind |-> h.blind]
  IN  IF baseline = NoSnapshot /\ saved = NoSnapshot THEN core
      ELSE IF saved = NoSnapshot
      THEN [partnerId |-> h.partnerId, loneWolf |-> h.loneWolf, result |-> h.result,
            blind |-> h.blind, editBaseline |-> baseline]
      ELSE IF baseline = NoSnapshot
      THEN [partnerId |-> h.partnerId, loneWolf |-> h.loneWolf, result |-> h.result,
            blind |-> h.blind, savedSnapshot |-> saved]
      ELSE [partnerId |-> h.partnerId, loneWolf |-> h.loneWolf, result |-> h.result,
            blind |-> h.blind, editBaseline |-> baseline, savedSnapshot |-> saved]

withEditBaseline(h, b) == holeWithMarkers(h, b, savedSnapshotOf(h))

currentHole(g) == g.holes[g.currentHoleIndex + 1]

setCurrentHole(g, h) == [g EXCEPT !.holes[g.currentHoleIndex + 1] = h]

ensureEditBaselineForCurrentHole(g) ==
  LET h == currentHole(g)
  IN  IF editBaselineOf(h) = NoSnapshot
      THEN setCurrentHole(g, withEditBaseline(h, holeSnapshot(h)))
      ELSE g

\* h._editBaseline = null; a hole whose baseline is null is written like a
\* hole that never had one
clearEditBaselineForCurrentHole(g) ==
  LET h == currentHole(g)
  IN  setCurrentHole(g, holeWithMarkers(h, NoSnapshot, savedSnapshotOf(h)))

\* h._savedSnapshot = holeSnapshot(h)
lockSavedSnapshot(g) ==
  LET h == currentHole(g)
  IN  setCurrentHole(g, holeWithMarkers(h, editBaselineOf(h), holeSnapshot(h)))

isCurrentHoleDirty(g) ==
  LET h == currentHole(g)
  IN  editBaselineOf(h) # NoSnapshot /\ holeSnapshot(h) # editBaselineOf(h)

\* variant: the result chosen since the baseline stays
revertToBaseline_keepsResult(g) ==
  LET h     == currentHole(g)
      saved == editBaselineOf(h)
  IN  setCurrentHole(g, holeWithMarkers(
                          [partnerId |-> saved[1], loneWolf |-> saved[2],
                           result |-> h.result, blind |-> saved[3]],
                          NoSnapshot, savedSnapshotOf(h)))

\* JSON.parse(h._editBaseline) copied back into the hole (goToHole, discard)
revertToBaseline(g) ==
  LET h     == currentHole(g)
      saved == editBaselineOf(h)
  IN  setCurrentHole(g, holeWithMarkers(
                          [partnerId |-> saved[1], loneWolf |-> saved[2],
                           result |-> saved[4], blind |-> saved[3]],
                          NoSnapshot, savedSnapshotOf(h)))

newGameTemplate == newGame(4, 12, FALSE, FALSE, <<>>)

\* JSON.stringify(game) under STORAGE_KEY
stringify(g) == [kind |-> "object", hasPlayers |-> TRUE, hasHoles |-> TRUE, game |-> g]

saveGame(g, st) == IF g = noGame THEN st ELSE stringify(g)

\* variant: the holes of the snapshot are not looked at
loadGame_playersOnly(st) ==
  LET parsedIsObject == st.kind = "object"
  IN  IF ~parsedIsObject \/ ~st.hasPlayers THEN noGame ELSE st.game

\* loadGame: null (noGame) unless the stored text parses to an object with
\* players and holes
loadGame(st) ==
  LET parsedIsObject == st.kind = "object"
  IN  IF ~parsedIsObject \/ ~st.hasPlayers \/ ~st.hasHoles THEN noGame ELSE st.game

\* what localStorage may hold when the page is opened
StoredSnapshots ==
  { noStorage,
    [noStorage EXCEPT !.kind = "unparsable"],
    [noStorage EXCEPT !.kind = "null"],
    [kind |-> "object", hasPlayers |-> FALSE, hasHoles |-> TRUE,
     game |-> ensureHolesLength(newGame(4, 8, FALSE, FALSE, <<>>))],
    [kind |-> "object", hasPlayers |-> TRUE, hasHoles |-> FALSE,
     game |-> ensureHolesLength(newGame(4, 8, FALSE, FALSE, <<>>))],
    stringify(ensureHolesLength(newGame(5, 10, FALSE, TRUE, <<>>))),
    stringify(newGame(4, 16, FALSE, FALSE, <<>>)),
    stringify([ensureHolesLength(newGame(4, 12, FALSE, FALSE, <<>>))
                 EXCEPT !.currentHoleIndex = 11]) }

\* renderHoleOptionsButtons: the hole count the setup screen settles on
renderHoleOptionsButtons(g, playerCount, selectedHoleCount) ==
  LET pick == IF selectedHoleCount \in suggested(playerCount)
              THEN selectedHoleCount
              ELSE (IF playerCount = 4 THEN 12 ELSE 15)
  IN  [g EXCEPT !.holeCount = pick]

initSetupUI(g) ==
  LET g1 == IF g = noGame THEN newGameTemplate ELSE g
  IN  renderHoleOptionsButtons(g1, g1.playerCount, g1.holeCount)

\* variant: a partner stays when the hole turns blind
blindImpliesLone_keepsPartner(h) == [h EXCEPT !.loneWolf = TRUE]

\* h.loneWolf = true; h.partnerId = null
blindImpliesLone(h) == [h EXCEPT !.loneWolf = TRUE, !.partnerId = NULL]

enforceBlindImpliesLone(g) ==
  LET h == currentHole(g)
  IN  IF ~g.options.blindWolf \/ ~h.blind THEN g
      ELSE setCurrentHole(g, blindImpliesLone(h))

\* renderGameScreen: the game after the screen is drawn
renderGameScreen(g) == enforceBlindImpliesLone(ensureHolesLength(g))

\* variant: every player of the order gets a partner button
partnerChoices_wholeOrder(order) == order

\* order.slice(0, -1)
partnerChoices(order) == slice(order, 0, Len(order) - 1)

\* the pids of the partner buttons renderGameScreen builds
renderedPartnerButtons ==
  partnerChoices(rotatedOrderForHole(game.currentHoleIndex))

\* variant: only a blind hole refuses a partner
partnerLocked_blindOnly(h) == h.blind

\* if (h.blind || h.loneWolf) return
partnerLocked(h) == h.blind \/ h.loneWolf

\* if blindWolf is off, clear the blind flags
clearBlindFlags(g) ==
  IF g.options.blindWolf THEN g
  ELSE [g EXCEPT !.holes = [k \in DOMAIN g.holes |-> [g.holes[k] EXCEPT !.blind = FALSE]]]

\* the values of the three result buttons
ResultValues == {"WOLF", "OTHER", "TIE"}

\* the result buttons the score keeper presses: the handlers do not tell
\* WOLF from OTHER
PressedResults == {v \in ResultValues : v # "OTHER"}

\* the partner button the score keeper presses: the last one, the player
\* next to the Wolf in the order
PressedPartners ==
  IF partnerButtons = <<>> THEN {}
  ELSE {partnerButtons[Len(partnerButtons)]}

\* the hole count button the score keeper presses: the smallest count on
\* offer (the template's count and the stored games' counts are larger)
PressedHoleCounts(playerCount) ==
  {v \in suggested(playerCount) : \A w \in suggested(playerCount) : v <= w}

\* the holes the score keeper opens: the first MaxVisit and the last one
Visited(g, index) == index < MaxVisit \/ index = g.holeCount - 1

\* the holes the score keeper fills in: the first MaxEdited and the last one
Edited(g) == g.currentHoleIndex < MaxEdited \/ g.currentHoleIndex = g.holeCount - 1

\* renderScoreboard's locals are gone once another screen is shown
LeaveScoreboard == summary' = noSummary /\ loop' = <<>>

\* partner button click
partnerButtonClick ==
  /\ screen = SCREENS.game
  /\ Edited(game)
  /\ \E pid \in PressedPartners :
       IF partnerLocked(currentHole(game))
       THEN UNCHANGED <<game, storage>>
       ELSE LET g == ensureEditBaselineForCurrentHole(game)
                h == currentHole(g)
            IN  /\ game' = setCurrentHole(g, [h EXCEPT !.partnerId = pid])
                /\ storage' = saveGame(game', storage)
  /\ UNCHANGED <<screen, summary, loop, isEditingSettings, partnerButtons,
                 playerCountBtnsDisabled>>
  /\ UNCHANGED swVars

\* blindToggle.onchange (the toggle is shown only with the blindWolf option)
blindToggleChange ==
  /\ screen = SCREENS.game
  /\ game.options.blindWolf
  /\ Edited(game)
  /\ LET g       == ensureEditBaselineForCurrentHole(game)
         checked == ~currentHole(game).blind
         h1      == [currentHole(g) EXCEPT !.blind = checked]
         h2      == IF h1.blind THEN blindImpliesLone(h1) ELSE h1
         saved   == setCurrentHole(g, h2)
     IN  /\ storage' = saveGame(saved, storage)
         /\ game' = renderGameScreen(saved)
  /\ partnerButtons' = renderedPartnerButtons'
  /\ UNCHANGED <<screen, summary, loop, isEditingSettings, playerCountBtnsDisabled>>
  /\ UNCHANGED swVars

\* loneToggle.onchange
loneToggleChange ==
  /\ screen = SCREENS.game
  /\ Edited(game)
  /\ LET g       == ensureEditBaselineForCurrentHole(game)
         checked == ~currentHole(game).loneWolf
         h1      == [currentHole(g) EXCEPT !.loneWolf = checked]
         h2      == IF ~h1.loneWolf /\ h1.blind THEN [h1 EXCEPT !.blind = FALSE] ELSE h1
         h3      == IF h2.loneWolf THEN [h2 EXCEPT !.partnerId = NULL] ELSE h2
         saved   == setCurrentHole(g, h3)
     IN  /\ storage' = saveGame(saved, storage)
         /\ game' = renderGameScreen(saved)
  /\ partnerButtons' = renderedPartnerButtons'
  /\ UNCHANGED <<screen, summary, loop, isEditingSettings, playerCountBtnsDisabled>>
  /\ UNCHANGED swVars

\* result button click
resultButtonClick ==
  /\ screen = SCREENS.game
  /\ Edited(game)
  /\ \E value \in PressedResults :
       LET g == ensureEditBaselineForCurrentHole(game)
       IN  /\ game' = setCurrentHole(g, [currentHole(g) EXCEPT !.result = value])
           /\ storage' = saveGame(game', storage)
  /\ UNCHANGED <<screen, summary, loop, isEditingSettings, partnerButtons,
                 playerCountBtnsDisabled>>
  /\ UNCHANGED swVars

\* variant: the answer to the confirm dialog is not looked at
goToHole_ignoresCancel(g, index, discard) ==
  LET target == clamp(index, 0, g.holeCount - 1)
      dirty  == isCurrentHoleDirty(g)
      g1     == IF dirty THEN revertToBaseline(g) ELSE g
      g2     == [g1 EXCEPT !.currentHoleIndex = target]
  IN  [stay |-> FALSE, saved |-> g2, game |-> renderGameScreen(g2)]

\* goToHole(index) from game g; discard is the answer to the confirm dialog.
\* The result is [stay, saved, game]: whether the handler returned early, the
\* game last written to storage, and the game after renderGameScreen.
goToHole(g, index, discard) ==
  LET target == clamp(index, 0, g.holeCount - 1)
      dirty  == isCurrentHoleDirty(g)
      g1     == IF dirty THEN revertToBaseline(g) ELSE g
      g2     == [g1 EXCEPT !.currentHoleIndex = target]
  IN  [stay |-> dirty /\ ~discard, saved |-> g2, game |-> renderGameScreen(g2)]

\* the game and the storage a call goToHole(index) leaves behind
afterGoToHole(g, st, index, discard) ==
  LET r == goToHole(g, index, discard)
  IN  IF r.stay THEN [game |-> g, storage |-> st]
      ELSE [game |-> r.game, storage |-> saveGame(r.saved, st)]

\* btnPrevHole / btnNextHole (and the bottom pair); disabled at the ends
btnPrevNextHole ==
  /\ screen = SCREENS.game
  /\ \E step \in {-1, 1}, discard \in BOOLEAN :
       LET index == game.currentHoleIndex + step
           after == afterGoToHole(game, storage, index, discard)
       IN  /\ index >= 0 /\ index <= game.holeCount - 1
           /\ Visited(game, index)
           /\ game' = after.game
           /\ storage' = after.storage
  /\ partnerButtons' = renderedPartnerButtons'
  /\ UNCHANGED <<screen, summary, loop, isEditingSettings, playerCountBtnsDisabled>>
  /\ UNCHANGED swVars

\* variant: a result is all that Save Hole asks for
saveRefused_resultOnly(h, wolfId) == h.result = NULL

\* the alerts of btnSaveHole: no result, or a team hole won by a side
\* without a partner or with the Wolf as partner
saveRefused(h, wolfId) ==
  \/ h.result = NULL
  \/ /\ h.result # "TIE"
     /\ ~h.loneWolf
     /\ (h.partnerId = NULL \/ h.partnerId = wolfId)

\* the click handler of btnSaveHole in the current state: whether the hole
\* was saved, and the game and the storage the handler leaves behind
afterSaveHole ==
  LET h0      == currentHole(game)
      order   == rotatedOrderForHole(game.currentHoleIndex)
      wolfId  == order[Len(order)]
      h       == IF h0.blind THEN blindImpliesLone(h0) ELSE h0
      g       == setCurrentHole(game, h)
      stored  == saveGame(g, storage)
      cleared == clearEditBaselineForCurrentHole(lockSavedSnapshot(g))
  IN  IF saveRefused(h, wolfId)
      THEN [ok |-> FALSE, game |-> g, storage |-> storage]
      ELSE IF cleared.currentHoleIndex < cleared.holeCount - 1
           THEN LET after == afterGoToHole(cleared, stored,
                                           cleared.currentHoleIndex + 1, FALSE)
                IN  [ok |-> TRUE, game |-> after.game, storage |-> after.storage]
           ELSE [ok |-> TRUE, game |-> renderGameScreen(cleared), storage |-> stored]

\* btnSaveHole
btnSaveHole ==
  /\ screen = SCREENS.game
  /\ LET after == afterSaveHole
     IN  /\ Visited(game, after.game.currentHoleIndex)
         /\ game' = after.game
         /\ storage' = after.storage
  /\ partnerButtons' = renderedPartnerButtons'
  /\ UNCHANGED <<screen, summary, loop, isEditingSettings, playerCountBtnsDisabled>>
  /\ UNCHANGED swVars

\* btnBackToGame
btnBackToGame ==
  /\ screen = SCREENS.scoreboard
  /\ screen' = SCREENS.game
  /\ game' = renderGameScreen(game)
  /\ partnerButtons' = renderedPartnerButtons'
  /\ LeaveScoreboard
  /\ UNCHANGED <<storage, isEditingSettings, playerCountBtnsDisabled>>
  /\ UNCHANGED swVars

\* new Date().toISOString(): the time of the press, whatever it is
FinishTime == "finished"

\* btnFinishGame; the score keeper finishes a game that stands on its last hole
btnFinishGame ==
  /\ screen = SCREENS.scoreboard
  /\ game.currentHoleIndex = game.holeCount - 1
  /\ game' = [game EXCEPT !.finishedAt = FinishTime]
  /\ storage' = saveGame(game', storage)
  /\ UNCHANGED <<screen, summary, loop, isEditingSettings, partnerButtons,
                 playerCountBtnsDisabled>>
  /\ UNCHANGED swVars

\* btnSetup (topbar menu): edit the settings of the game at hand, or set up
\* a first game
btnSetup ==
  /\ LET loaded == IF game # noGame THEN game ELSE loadGame(storage)
     IN  IF loaded = noGame
         THEN /\ isEditingSettings' = FALSE
              /\ game' = initSetupUI(game)
              /\ UNCHANGED playerCountBtnsDisabled
         ELSE /\ isEditingSettings' = TRUE
              /\ game' = initSetupUI(ensureHolesLength(loaded))
              /\ playerCountBtnsDisabled' = TRUE
  /\ screen' = SCREENS.setup
  /\ LeaveScoreboard
  /\ UNCHANGED <<storage, partnerButtons>>
  /\ UNCHANGED swVars

\* btnNewGame
btnNewGame ==
  /\ screen = SCREENS.load
  /\ game' = initSetupUI(newGameTemplate)
  /\ screen' = SCREENS.setup
  /\ isEditingSettings' = FALSE
  /\ playerCountBtnsDisabled' = FALSE
  /\ UNCHANGED <<storage, partnerButtons, summary, loop>>
  /\ UNCHANGED swVars

\* btnResume (enabled while something is stored)
btnResume ==
  /\ screen = SCREENS.load
  /\ storage.kind # "absent"
  /\ LET loaded == loadGame(storage)
     IN  IF loaded = noGame
         THEN UNCHANGED <<game, screen, partnerButtons>>
         ELSE /\ game' = renderGameScreen(ensureHolesLength(loaded))
              /\ screen' = SCREENS.game
              /\ partnerButtons' = renderedPartnerButtons'
  /\ UNCHANGED <<storage, isEditingSettings, playerCountBtnsDisabled, summary, loop>>
  /\ UNCHANGED swVars

\* clearGame, then the load screen: btnReset (topbar menu)
btnReset ==
  /\ storage' = noStorage
  /\ game' = noGame
  /\ screen' = SCREENS.load
  /\ LeaveScoreboard
  /\ UNCHANGED <<isEditingSettings, partnerButtons, playerCountBtnsDisabled>>
  /\ UNCHANGED swVars

\* btnNewFromScoreboard
btnNewFromScoreboard ==
  /\ screen = SCREENS.scoreboard
  /\ storage' = noStorage
  /\ game' = noGame
  /\ screen' = SCREENS.load
  /\ LeaveScoreboard
  /\ UNCHANGED <<isEditingSettings, partnerButtons, playerCountBtnsDisabled>>
  /\ UNCHANGED swVars

\* btnBackToLoad
btnBackToLoad ==
  /\ screen = SCREENS.setup
  /\ screen' = SCREENS.load
  /\ UNCHANGED <<game, storage, isEditingSettings, partnerButtons,
                 playerCountBtnsDisabled, summary, loop>>
  /\ UNCHANGED swVars

\* click on one of the hole count buttons of the setup screen
holeCountButtonClick ==
  /\ screen = SCREENS.setup
  /\ \E v \in PressedHoleCounts(game.playerCount) :
       /\ game' = [game EXCEPT !.holeCount = v]
       /\ storage' = saveGame(game', storage)
  /\ UNCHANGED <<screen, isEditingSettings, partnerButtons,
                 playerCountBtnsDisabled, summary, loop>>
  /\ UNCHANGED swVars

\* click on one of the player count buttons (disabled while editing settings)
playerCountButtonClick ==
  /\ screen = SCREENS.setup
  /\ ~playerCountBtnsDisabled
  /\ \E pc \in {4, 5} :
       LET g == [game EXCEPT !.playerCount = pc, !.players = buildPlayers(pc)]
       IN  /\ game' = renderHoleOptionsButtons(g, pc, g.holeCount)
           /\ storage' = saveGame(game', storage)
  /\ UNCHANGED <<screen, isEditingSettings, partnerButtons,
                 playerCountBtnsDisabled, summary, loop>>
  /\ UNCHANGED swVars

\* variant: the holes are started afresh, as for a new game
applySettingsFromSetup_resetsHoles(g, pushTies, blindWolf) ==
  LET g1 == [g EXCEPT !.players = buildPlayers(Len(g.players)),
                      !.options = [pushTies |-> pushTies, blindWolf |-> blindWolf],
                      !.holes = <<>>]
  IN  clearBlindFlags(ensureHolesLength(g1))

\* applySettingsFromSetup with the two option boxes as found
applySettingsFromSetup(g, pushTies, blindWolf) ==
  LET g1 == [g EXCEPT !.players = buildPlayers(Len(g.players)),
                      !.options = [pushTies |-> pushTies, blindWolf |-> blindWolf]]
  IN  clearBlindFlags(ensureHolesLength(g1))

\* btnStartGame: "Save Settings" while editing, "Start Game" otherwise
btnStartGame ==
  /\ screen = SCREENS.setup
  /\ \E pushTies \in {FALSE}, blindWolf \in BOOLEAN :
       LET started ==
             IF isEditingSettings
             THEN applySettingsFromSetup(game, pushTies, blindWolf)
             ELSE clearBlindFlags(ensureHolesLength(
                    [game EXCEPT !.players = buildPlayers(Len(game.players)),
                                 !.options = [pushTies |-> pushTies,
                                              blindWolf |-> blindWolf],
                                 !.holes = <<>>,
                                 !.currentHoleIndex = 0,
                                 !.finishedAt = NULL]))
       IN  /\ storage' = saveGame(started, storage)
           /\ game' = renderGameScreen(started)
  /\ isEditingSettings' = FALSE
  /\ screen' = SCREENS.game
  /\ partnerButtons' = renderedPartnerButtons'
  /\ UNCHANGED <<playerCountBtnsDisabled, summary, loop>>
  /\ UNCHANGED swVars

\* the page is opened again: init
reload ==
  /\ game' = noGame
  /\ isEditingSettings' = FALSE
  /\ playerCountBtnsDisabled' = FALSE
  /\ partnerButtons' = <<>>
  /\ screen' = SCREENS.load
  /\ LeaveScoreboard
  /\ UNCHANGED storage
  /\ UNCHANGED swVars

\* the state when the page is first opened
InitUI ==
  /\ game = noGame
  /\ screen = SCREENS.load
  /\ summary = noSummary
  /\ loop = <<>>
  /\ storage \in StoredSnapshots
  /\ isEditingSettings = FALSE
  /\ partnerButtons = <<>>
  /\ playerCountBtnsDisabled = FALSE
  /\ caches = {}
  /\ sw = noWorker

NextUI ==
  \/ partnerButtonClick \/ blindToggleChange \/ loneToggleChange
  \/ resultButtonClick \/ btnPrevNextHole \/ btnSaveHole
  \/ btnViewScores \/ btnBackToGame \/ btnFinishGame
  \/ btnSetup \/ btnNewGame \/ btnResume \/ btnReset \/ btnNewFromScoreboard
  \/ btnBackToLoad \/ holeCountButtonClick \/ playerCountButtonClick
  \/ btnStartGame \/ reload

SpecUI == InitUI /\ [][NextUI]_vars

(* ---------------- service worker: install, activate, update ---------------- *)
\* Cache names are sequences of characters, so that startsWith is computed.
startsWith(k, prefix) ==
  Len(k) >= Len(prefix) /\ SubSeq(k, 1, Len(prefix)) = prefix

\* the version of the worker that is being installed, and the one of the
\* worker it replaces
SW_VERSION == <<"v", "2", ".", "1", "7", ".", "5">>

SW_VERSION_previous == <<"v", "6">>

\* `wolf-static-${version}`
cacheStaticOf(version) ==
  <<"w", "o", "l", "f", "-", "s", "t", "a", "t", "i", "c", "-">> \o version

\* `wolf-pages-${version}`
cachePagesOf(version) ==
  <<"w", "o", "l", "f", "-", "p", "a", "g", "e", "s", "-">> \o version

CACHE_STATIC == cacheStaticOf(SW_VERSION)

CACHE_PAGES == cachePagesOf(SW_VERSION)

\* the filter of the activate listener, with the prefix "wolf" instead of
\* "wolf-"
isStaleCache_noDash(k) ==
  /\ startsWith(k, <<"w", "o", "l", "f">>)
  /\ k # CACHE_STATIC
  /\ k # CACHE_PAGES

\* the filter of the activate listener:
\* k.startsWith('wolf-') && k !== CACHE_STATIC && k !== CACHE_PAGES
isStaleCache(k) ==
  /\ startsWith(k, <<"w", "o", "l", "f", "-">>)
  /\ k # CACHE_STATIC
  /\ k # CACHE_PAGES

\* caches of the origin that the new worker did not create: those of the
\* previous worker, one more with the prefix, and two without it
OtherCaches ==
  { cacheStaticOf(SW_VERSION_previous),
    cachePagesOf(SW_VERSION_previous),
    <<"w", "o", "l", "f", "-", "t", "m", "p">>,
    <<"w", "o", "l", "f", "p", "a", "c", "k">>,
    <<"f", "o", "n", "t", "s">> }

\* The registration and the page's view of it.
\*   active       the registration's active worker: "none", "previous", "current"
\*   state        the state of the worker with SW_VERSION ("parsed" before the
\*                browser has found it)
\*   skipWaiting  the worker's skip-waiting flag
\*   inbox        messages posted to the worker and not yet handled
\*   toDelete     caches.delete calls of the activate listener not yet done
\*   controller   navigator.serviceWorker.controller of the page
\*   controllerchange, versionReply   events queued for the page
\*   banner       the update banner is shown
\*   checking     the click handler of btnCheckUpdate waits for reg.update()
\*   version      the text of the version element
\*   log          what has happened so far
workerOf(active, state) ==
  [ active |-> active, state |-> state, skipWaiting |-> FALSE,
    inbox |-> {}, toDelete |-> {},
    controller |-> active, controllerchange |-> FALSE, versionReply |-> FALSE,
    banner |-> FALSE, checking |-> FALSE, version |-> <<>>, log |-> {} ]

\* the page is opened for the first time (no worker yet), or under the
\* previous worker, with the new one not yet found or already waiting
InitSW ==
  /\ game = noGame
  /\ screen = SCREENS.load
  /\ summary = noSummary
  /\ loop = <<>>
  /\ storage \in {noStorage, [noStorage EXCEPT !.kind = "null"]}
  /\ isEditingSettings = FALSE
  /\ partnerButtons = <<>>
  /\ playerCountBtnsDisabled = FALSE
  /\ \/ /\ sw \in {workerOf("none", "parsed"), workerOf("previous", "parsed")}
        /\ caches \in SUBSET OtherCaches
     \/ /\ sw = workerOf("previous", "installed")
        /\ \E others \in SUBSET OtherCaches : caches = others \cup {CACHE_STATIC}

\* register() or reg.update(): the browser finds the script with SW_VERSION and
\* starts to install it
updatefound ==
  /\ sw.state \in {"parsed", "redundant"}
  /\ sw' = [sw EXCEPT !.state = "installing"]
  /\ UNCHANGED caches
  /\ UNCHANGED appVars

\* the install listener with the call of skipWaiting that the source has
\* commented out
installListener_skipsWaiting(s, ok) ==
  IF ok
  THEN [s EXCEPT !.state = "installed", !.skipWaiting = TRUE,
                 !.log = @ \cup {"skipWaiting"}]
  ELSE [s EXCEPT !.state = "redundant"]

\* the install listener: the worker is installed when cache.addAll succeeds
installListener(s, ok) ==
  IF ok
  THEN [s EXCEPT !.state = "installed"]
  ELSE [s EXCEPT !.state = "redundant"]

\* the install event: caches.open(CACHE_STATIC) creates the cache, addAll
\* succeeds or fails
install ==
  /\ sw.state = "installing"
  /\ caches' = caches \cup {CACHE_STATIC}
  /\ \E ok \in BOOLEAN : sw' = installListener(sw, ok)
  /\ UNCHANGED appVars

\* showUpdateBanner, called when the page finds reg.waiting
showUpdateBanner ==
  /\ sw.state = "installed"
  /\ ~sw.banner
  /\ sw' = [sw EXCEPT !.banner = TRUE]
  /\ UNCHANGED caches
  /\ UNCHANGED appVars

\* postMessage({ type: 'SKIP_WAITING' }) to reg.waiting
postSkipWaiting(s) ==
  [s EXCEPT !.inbox = @ \cup {"SKIP_WAITING"}, !.log = @ \cup {"postSkipWaiting"}]

\* the onclick of the Update Now button of the banner
btnUpdateNow ==
  /\ sw.banner
  /\ LET tapped == [sw EXCEPT !.log = @ \cup {"tap"}]
     IN  sw' = IF sw.state = "installed" THEN postSkipWaiting(tapped) ELSE tapped
  /\ UNCHANGED caches
  /\ UNCHANGED appVars

\* the click of Check for update, up to reg.update(): with a saved game the
\* score keeper is asked whether to continue
btnCheckUpdate ==
  /\ screen = SCREENS.load
  /\ ~sw.checking
  /\ LET hasSavedGame == storage.kind # "absent"
     IN  \E ok \in BOOLEAN :
           sw' = IF hasSavedGame /\ ~ok THEN sw ELSE [sw EXCEPT !.checking = TRUE]
  /\ UNCHANGED caches
  /\ UNCHANGED appVars

\* the click of Check for update, after the wait: with reg.waiting the score
\* keeper is asked whether to apply the update
btnCheckUpdateApply ==
  /\ sw.checking
  /\ LET done == [sw EXCEPT !.checking = FALSE]
     IN  IF sw.state = "installed"
         THEN \E apply \in BOOLEAN :
                sw' = IF apply
                      THEN postSkipWaiting([done EXCEPT !.log = @ \cup {"confirm"}])
                      ELSE done
         ELSE sw' = done
  /\ UNCHANGED caches
  /\ UNCHANGED appVars

\* the message listener of the worker: skipWaiting on SKIP_WAITING, a VERSION
\* reply on GET_VERSION
messageListener(s, msg) ==
  IF msg = "SKIP_WAITING"
  THEN [s EXCEPT !.skipWaiting = TRUE,
                 !.log = @ \cup {"recvSkipWaiting", "skipWaiting"}]
  ELSE IF msg = "GET_VERSION"
  THEN [s EXCEPT !.versionReply = TRUE]
  ELSE s

\* the worker handles one of its messages
message ==
  /\ sw.state \in {"installed", "activating", "activated"}
  /\ \E msg \in sw.inbox :
       sw' = messageListener([sw EXCEPT !.inbox = @ \ {msg}], msg)
  /\ UNCHANGED caches
  /\ UNCHANGED appVars

\* the message listener of the page shows the version
pageMessage ==
  /\ sw.versionReply
  /\ sw' = [sw EXCEPT !.versionReply = FALSE, !.version = SW_VERSION]
  /\ UNCHANGED caches
  /\ UNCHANGED appVars

\* The browser activates the waiting worker: at once when there is no active
\* worker, otherwise when the skip-waiting flag is set (the page stays open, so
\* the previous worker keeps its client).  The previous worker has no event in
\* progress, a page it controlled gets the new controller, and the activate
\* listener reads caches.keys() and starts to delete.
activate ==
  /\ sw.state = "installed"
  /\ sw.active = "none" \/ sw.skipWaiting
  /\ sw' = [sw EXCEPT !.state = "activating",
                      !.active = "current",
                      !.controller = IF @ = "previous" THEN "current" ELSE @,
                      !.controllerchange = @ \/ sw.controller = "previous",
                      !.toDelete = {k \in caches : isStaleCache(k)},
                      !.log = IF sw.active = "previous" THEN @ \cup {"takeover"} ELSE @]
  /\ UNCHANGED caches
  /\ UNCHANGED appVars

\* one caches.delete(k) of the activate listener; Promise.all leaves the order
\* open
deleteCache ==
  /\ sw.state = "activating"
  /\ \E k \in sw.toDelete :
       /\ caches' = caches \ {k}
       /\ sw' = [sw EXCEPT !.toDelete = @ \ {k}, !.log = @ \cup {"delete"}]
  /\ UNCHANGED appVars

\* the end of the activate listener: clients.claim() makes the worker the
\* controller of a page that has another one or none
clientsClaim ==
  /\ sw.state = "activating"
  /\ sw.toDelete = {}
  /\ sw' = [sw EXCEPT !.state = "activated",
                      !.controller = "current",
                      !.controllerchange = @ \/ sw.controller # "current"]
  /\ UNCHANGED caches
  /\ UNCHANGED appVars

\* the controllerchange listener of the page: hideUpdateBanner,
\* requestSwVersion, window.location.reload(); the page starts again
controllerchange ==
  /\ sw.controllerchange
  /\ sw' = [sw EXCEPT !.controllerchange = FALSE,
                      !.banner = FALSE,
                      !.checking = FALSE,
                      !.versionReply = FALSE,
                      !.version = <<>>,
                      !.inbox = @ \cup {"GET_VERSION"},
                      !.log = @ \cup {"controllerchange", "reload"}]
  /\ game' = noGame
  /\ isEditingSettings' = FALSE
  /\ playerCountBtnsDisabled' = FALSE
  /\ partnerButtons' = <<>>
  /\ screen' = SCREENS.load
  /\ LeaveScoreboard
  /\ UNCHANGED storage
  /\ UNCHANGED caches

\* the fetch listener of the active worker: a navigation opens CACHE_PAGES, a
\* static asset opens CACHE_STATIC
fetch ==
  /\ sw.state = "activated"
  /\ sw.controller = "current"
  /\ \E isNavigationRequest \in BOOLEAN :
       caches' = caches \cup {IF isNavigationRequest THEN CACHE_PAGES ELSE CACHE_STATIC}
  /\ UNCHANGED sw
  /\ UNCHANGED appVars

\* the fetch listener of the previous worker, while it controls the page
fetchPrevious ==
  /\ sw.active = "previous"
  /\ sw.controller = "previous"
  /\ \E isNavigationRequest \in BOOLEAN :
       caches' = caches \cup {IF isNavigationRequest
                              THEN cachePagesOf(SW_VERSION_previous)
                              ELSE cacheStaticOf(SW_VERSION_previous)}
  /\ UNCHANGED sw
  /\ UNCHANGED appVars

NextSW ==
  \/ updatefound \/ install \/ showUpdateBanner
  \/ btnUpdateNow \/ btnCheckUpdate \/ btnCheckUpdateApply
  \/ message \/ pageMessage
  \/ activate \/ deleteCache \/ clientsClaim \/ controllerchange
  \/ fetch \/ fetchPrevious

SpecSW == InitSW /\ [][NextSW]_vars

(* ---------------- properties ---------------- *)
Scored == screen = SCREENS.scoreboard

Ids == Range(playerIdsOf(game))

Holes == 1..Len(loop)

\* the loop's variables when iteration k (hole number k) starts
Before(k) == IF k = 1 THEN loopStart(game) ELSE loop[k - 1]

Entry(k) == summary.perHole[k]

IsWin(k) == Entry(k).status \in {"WOLF_WIN", "OTHER_WIN"}

IsTie(k) == Entry(k).status = "TIE"

AllZero(delta) == \A pid \in Ids : delta[pid] = 0

\* hole k is a team hole with a winning side and no usable partner
InvalidTeamHole(k) ==
  /\ game.holes[k].result \in {"WOLF", "OTHER"}
  /\ ~game.holes[k].loneWolf
  /\ (game.holes[k].partnerId = NULL \/ game.holes[k].partnerId = AllIds[
        ((game.playerCount - 1 - ((k - 1) % game.playerCount)) % game.playerCount) + 1])

\* the Wolf the game screen shows for hole index i
wolfOfHole(i) == LET order == rotatedOrderForHole(i) IN order[Len(order)]

OnGameScreen == screen = SCREENS.game

\* C1: in every breakdown entry with status WOLF_WIN or OTHER_WIN the
\* per-player deltas sum to zero.
C1_DecisiveRoundZeroSum ==
  Scored => \A k \in Holes : IsWin(k) => SumOver(Entry(k).deltaByPlayer, Ids) = 0

C1_Witness ==
  /\ Scored
  /\ game.playerCount = 5
  /\ \E k \in Holes :
       /\ IsWin(k)
       /\ ~game.holes[k].loneWolf
       /\ loop[k].wagerPerPlayer >= 2

\* C2: the net totals of all players returned by computeScores sum to zero.
C2_TotalsZeroSum ==
  Scored => SumOver(summary.totals, Ids) = 0

C2_Witness ==
  /\ Scored
  /\ Len(loop) >= 3
  /\ \E a, b, c \in Holes :
       /\ IsWin(a) /\ IsTie(b) /\ InvalidTeamHole(c)
       /\ \E d \in Holes : game.holes[d].result = NULL
  /\ \E pid \in Ids : summary.totals[pid] # 0

\* C3: in every settled round each winner's delta is +wager x (number of
\* losers) and each loser's delta is -wager x (number of winners).
C3_AllPairsTransfer ==
  Scored =>
    \A k \in Holes : IsWin(k) =>
      LET w == loop[k].wagerPerPlayer
          W == Range(loop[k].winners)
          L == Range(loop[k].losers)
      IN  /\ w >= 1
          /\ W # {} /\ L # {} /\ W \cap L = {} /\ W \cup L = Ids
          /\ \A pid \in W : Entry(k).deltaByPlayer[pid] = w * Cardinality(L)
          /\ \A pid \in L : Entry(k).deltaByPlayer[pid] = -(w * Cardinality(W))

C3_Witness ==
  /\ Scored
  /\ game.playerCount = 5
  /\ \E k \in Holes :
       /\ IsWin(k)
       /\ Len(loop[k].winners) = 3 /\ Len(loop[k].losers) = 2
       /\ loop[k].wagerPerPlayer = 2

\* C4: the per-player wager of a round with a winning side is
\* (pushTies ? carry : 0) + 1 + (1 if blindWolf is enabled and the round's
\* blind flag is set), the surcharge being added, not multiplied.
C4_WagerIsCarryPlusBase ==
  Scored =>
    \A k \in Holes : IsWin(k) =>
      loop[k].wagerPerPlayer =
          (IF game.options.pushTies THEN Before(k).carryPerPlayer ELSE 0) + 1
        + (IF game.options.blindWolf /\ game.holes[k].blind THEN 1 ELSE 0)

C4_Witness ==
  /\ Scored
  /\ game.options.pushTies /\ game.options.blindWolf
  /\ \E k \in Holes :
       /\ IsWin(k)
       /\ game.holes[k].blind
       /\ Before(k).carryPerPlayer = 2
       /\ loop[k].wagerPerPlayer = 4

\* C5: with pushTies on and blindWolf off, a run of n tied rounds that starts
\* the game or follows a settled round, followed by a settled round, gives that
\* round the wager n + 1; the carry is 0 afterwards and a settled round right
\* after it has wager 1.
C5_TieCarry ==
  (Scored /\ game.options.pushTies /\ ~game.options.blindWolf) =>
    \A a, b \in Holes :
      ( /\ a <= b
        /\ \A k \in a..b : IsTie(k)
        /\ (a = 1 \/ IsWin(a - 1))
        /\ b + 1 \in Holes
        /\ IsWin(b + 1) )
      => /\ loop[b + 1].wagerPerPlayer = (b - a + 1) + 1
         /\ loop[b + 1].carryPerPlayer = 0
         /\ \A pid \in Range(loop[b + 1].losers) :
              Entry(b + 1).deltaByPlayer[pid] = -((b - a + 2) * Len(loop[b + 1].winners))
         /\ (b + 2 \in Holes /\ IsWin(b + 2)) => loop[b + 2].wagerPerPlayer = 1

C5_Witness ==
  /\ Scored
  /\ game.options.pushTies /\ ~game.options.blindWolf
  /\ Len(loop) = 4
  /\ IsTie(1) /\ IsTie(2) /\ IsWin(3) /\ IsWin(4)
  /\ loop[3].wagerPerPlayer = 3
  /\ loop[4].wagerPerPlayer = 1

\* C6: a team round with a winning side whose partnerId is null or the
\* role-holder is emitted as NOT_SCORED with all-zero deltas and leaves the
\* tie-carry untouched.
C6_InvalidPartnerKeepsCarry ==
  Scored =>
    \A k \in Holes : InvalidTeamHole(k) =>
      /\ Entry(k).status = "NOT_SCORED"
      /\ AllZero(Entry(k).deltaByPlayer)
      /\ loop[k].carryPerPlayer = Before(k).carryPerPlayer

\* C7: for N in {4,5} and every round index the resolved order is a
\* permutation of the exact set of player ids.
IsPermutationOfRoster(order) ==
  /\ Len(order) = game.playerCount
  /\ Range(order) = Ids
  /\ \A x, y \in DOMAIN order : order[x] = order[y] => x = y

C7_OrderIsPermutation ==
  /\ OnGameScreen =>
       \A i \in 0..(game.holeCount - 1) : IsPermutationOfRoster(rotatedOrderForHole(i))
  /\ Scored => \A k \in Holes : IsPermutationOfRoster(loop[k].order)

C7_Witness ==
  /\ Scored
  /\ game.playerCount = 5 /\ game.holeCount = 25
  /\ Len(loop) = 25
  /\ loop[25].order = rotatedOrderForHole(24)
  /\ loop[7].order # loop[1].order

\* C8: over any N consecutive rounds the role-holder is a different player
\* each round, and the role-holder of round i + N is the role-holder of
\* round i.
C8_RoundRobin ==
  OnGameScreen => \A i \in 0..(game.holeCount - 1) :
    /\ LET wolves == {wolfOfHole(x) : x \in i..(i + game.playerCount - 1)}
       IN  Cardinality(wolves) = game.playerCount /\ wolves = Ids
    /\ wolfOfHole(i + game.playerCount) = wolfOfHole(i)

C8_Witness ==
  /\ OnGameScreen
  /\ game.playerCount = 5 /\ game.holeCount >= 15
  /\ wolfOfHole(0) = "p5" /\ wolfOfHole(1) = "p4" /\ wolfOfHole(4) = "p1"
  /\ wolfOfHole(5) = "p5"

\* C9: the order of round i is the setup order right-rotated by i mod N
\* positions; round 0 keeps the setup order and its role-holder is the last
\* player of the setup order.
C9_RightRotation ==
  OnGameScreen =>
  LET n    == game.playerCount
      base == playerIdsOf(game)
  IN  /\ \A i \in 0..(game.holeCount - 1) :
           LET order == rotatedOrderForHole(i)
           IN  /\ Len(order) = n
               /\ \A j \in 1..n : order[((j - 1 + (i % n)) % n) + 1] = base[j]
      /\ rotatedOrderForHole(0) = base
      /\ wolfOfHole(0) = base[n]

C9_Witness ==
  /\ OnGameScreen
  /\ game.playerCount = 4 /\ game.holeCount >= 8
  /\ rotatedOrderForHole(0) = <<"p1", "p2", "p3", "p4">>
  /\ rotatedOrderForHole(1) = <<"p4", "p1", "p2", "p3">>
  /\ rotatedOrderForHole(6) = <<"p3", "p4", "p1", "p2">>

\* C10: a round whose outcome is null produces a NOT_SCORED entry with
\* all-zero deltas and changes no running total and not the tie-carry,
\* whatever its partner, solo and blind fields are.
C10_NullOutcomeNoEffect ==
  Scored =>
    \A k \in Holes : game.holes[k].result = NULL =>
      /\ Entry(k).status = "NOT_SCORED"
      /\ Entry(k).hole = k
      /\ AllZero(Entry(k).deltaByPlayer)
      /\ loop[k].totals = Before(k).totals
      /\ loop[k].won = Before(k).won
      /\ loop[k].lost = Before(k).lost
      /\ loop[k].carryPerPlayer = Before(k).carryPerPlayer

C10_Witness ==
  /\ Scored
  /\ game.options.pushTies
  /\ \E k \in Holes :
       /\ game.holes[k].result = NULL
       /\ game.holes[k].loneWolf /\ game.holes[k].blind /\ game.holes[k].partnerId # NULL
       /\ Before(k).carryPerPlayer = 1
       /\ \E pid \in Ids : Before(k).totals[pid] # 0

\* the game with the blind flag of every tied hole cleared
withoutTieBlind(g) ==
  [g EXCEPT !.holes = [k \in DOMAIN g.holes |->
     IF g.holes[k].result = "TIE" THEN [g.holes[k] EXCEPT !.blind = FALSE] ELSE g.holes[k]]]

\* C11: a tied round produces a TIE entry with all-zero deltas and changes no
\* total; it raises the carry by exactly 1 when pushTies is enabled and not at
\* all otherwise; its blind flag changes neither that increment nor the wager
\* of any round (the run on the game with the tied rounds' blind flags cleared
\* has the same carry and wager at every round).
C11_TieEffect ==
  Scored =>
    /\ \A k \in Holes : game.holes[k].result = "TIE" =>
         /\ Entry(k).status = "TIE"
         /\ Entry(k).hole = k
         /\ AllZero(Entry(k).deltaByPlayer)
         /\ loop[k].totals = Before(k).totals
         /\ loop[k].won = Before(k).won
         /\ loop[k].lost = Before(k).lost
         /\ loop[k].carryPerPlayer =
              Before(k).carryPerPlayer + (IF game.options.pushTies THEN 1 ELSE 0)
    /\ (\E k \in Holes : game.holes[k].result = "TIE" /\ game.holes[k].blind) =>
         LET other == loopTrace(withoutTieBlind(game), game.holeCount)
         IN  \A k \in Holes :
               /\ other[k].carryPerPlayer = loop[k].carryPerPlayer
               /\ other[k].wagerPerPlayer = loop[k].wagerPerPlayer
               /\ other[k].pushed = loop[k].pushed

C11_Witness ==
  /\ Scored
  /\ game.options.pushTies /\ game.options.blindWolf
  /\ Len(loop) >= 3
  /\ \E k \in Holes :
       /\ k + 2 \in Holes
       /\ game.holes[k].result = "TIE" /\ game.holes[k].blind
       /\ Before(k).carryPerPlayer = 0
       /\ loop[k].carryPerPlayer = 1
       /\ IsWin(k + 1) /\ loop[k + 1].wagerPerPlayer = 2
       /\ IsWin(k + 2) /\ game.holes[k + 2].blind /\ loop[k + 2].wagerPerPlayer = 2

\* the game cut down to its first j holes
prefixGame(j) == [game EXCEPT !.holes = SubSeq(@, 1, j), !.holeCount = j]

\* the holes after hole j all have no result
UnscoredAfter(j) == \A k \in (j + 1)..Len(game.holes) : game.holes[k].result = NULL

\* C13: appending unscored (null-outcome) rounds to a sequence of rounds, the
\* round count grown with it, changes no player's net, won or lost total and
\* not the scored-round count: the summary of a game that ends in unscored
\* rounds equals the summary of the game without them.
C13_AppendUnscored ==
  Scored =>
    \A j \in 1..(Len(game.holes) - 1) :
      (UnscoredAfter(j) /\ (j = 1 \/ ~UnscoredAfter(j - 1))) =>
        LET short == computeScores(prefixGame(j))
        IN  /\ summary.totals = short.totals
            /\ summary.won = short.won
            /\ summary.lost = short.lost
            /\ summary.holesScoredCount = short.holesScoredCount
            /\ Len(summary.perHole) = Len(short.perHole) + (Len(game.holes) - j)

C13_Witness ==
  /\ Scored
  /\ Len(game.holes) = 4
  /\ UnscoredAfter(2) /\ ~UnscoredAfter(1)
  /\ game.holes[3].loneWolf /\ game.holes[4].blind
  /\ \E pid \in Ids : summary.totals[pid] # 0
  /\ summary.holesScoredCount = 2

ExpectedWolf(k) == AllIds[game.playerCount - ((k - 1) % game.playerCount)]

\* C15: computeScores returns, for every combination of outcome, partnerId,
\* solo flag and blind flag (missing partner and partner equal to the
\* role-holder included), a summary with exactly one breakdown entry per
\* round, numbered 1..roundCount in order.
C15_OneEntryPerRound ==
  Scored =>
    /\ Len(summary.perHole) = game.holeCount
    /\ \A k \in 1..game.holeCount :
         /\ Entry(k).hole = k
         /\ Entry(k).status \in {"NOT_SCORED", "TIE", "WOLF_WIN", "OTHER_WIN"}
         /\ DOMAIN Entry(k).deltaByPlayer = Ids
    /\ DOMAIN summary.totals = Ids
    /\ DOMAIN summary.won = Ids
    /\ DOMAIN summary.lost = Ids

C15_Witness ==
  /\ Scored
  /\ game.holeCount >= 8
  /\ Len(summary.perHole) = game.holeCount
  /\ \E k \in Holes :
       /\ k > game.playerCount
       /\ game.holes[k].result = "OTHER"
       /\ ~game.holes[k].loneWolf /\ game.holes[k].blind
       /\ game.holes[k].partnerId = ExpectedWolf(k)
       /\ Entry(k).status = "NOT_SCORED"

\* C16: in every settled round every one of the N players is a winner or a
\* loser: each delta is non-zero, positive for winners and negative for
\* losers, and winners and losers are disjoint and cover the roster.
C16_EveryoneInvolved ==
  Scored =>
    \A k \in Holes : IsWin(k) =>
      LET W == Range(loop[k].winners)
          L == Range(loop[k].losers)
      IN  /\ W \cap L = {}
          /\ W \cup L = Ids
          /\ Len(loop[k].winners) + Len(loop[k].losers) = game.playerCount
          /\ \A pid \in Ids : Entry(k).deltaByPlayer[pid] # 0
          /\ \A pid \in W : Entry(k).deltaByPlayer[pid] > 0
          /\ \A pid \in L : Entry(k).deltaByPlayer[pid] < 0

C16_Witness ==
  /\ Scored
  /\ game.playerCount = 5
  /\ \E k, m \in Holes :
       /\ IsWin(k) /\ Len(loop[k].winners) = 1 /\ Len(loop[k].losers) = 4
       /\ IsWin(m) /\ Len(loop[m].winners) = 3 /\ Len(loop[m].losers) = 2

\* +1 when the result names the Wolf's side as winner, -1 otherwise
RoleSign(k) == IF game.holes[k].result = "WOLF" THEN 1 ELSE -1

\* C17: in a settled team round with wager w the role team is exactly
\* {role-holder, partner} and the other team is everyone else: each role-team
\* member gets +(N-2)w or -(N-2)w and each other player -2w or +2w (+-2w for
\* all with 4 players; +-3w and -+2w with 5); 4 players, no options, round 0,
\* p4 picks p1 and wins gives p1:+2, p4:+2, p2:-2, p3:-2.
C17_TeamRound ==
  Scored =>
    /\ \A k \in Holes : (IsWin(k) /\ ~game.holes[k].loneWolf) =>
         LET w        == loop[k].wagerPerPlayer
             n        == game.playerCount
             roleTeam == {ExpectedWolf(k), game.holes[k].partnerId}
         IN  /\ w >= 1
             /\ Cardinality(roleTeam) = 2
             /\ roleTeam \subseteq Ids
             /\ \A pid \in roleTeam :
                  Entry(k).deltaByPlayer[pid] = RoleSign(k) * (n - 2) * w
             /\ \A pid \in Ids \ roleTeam :
                  Entry(k).deltaByPlayer[pid] = (-RoleSign(k)) * 2 * w
    /\ ( /\ game.playerCount = 4
         /\ ~game.options.pushTies /\ ~game.options.blindWolf
         /\ game.holes[1] = hole("p1", FALSE, "WOLF", FALSE) )
       => Entry(1).deltaByPlayer =
            [pid \in Ids |-> IF pid \in {"p1", "p4"} THEN 2 ELSE -2]

C17_Witness ==
  /\ Scored
  /\ game.playerCount = 4
  /\ ~game.options.pushTies /\ ~game.options.blindWolf
  /\ game.holes[1] = hole("p1", FALSE, "WOLF", FALSE)
  /\ Entry(1).deltaByPlayer["p4"] = 2 /\ Entry(1).deltaByPlayer["p2"] = -2

\* a second place where the team case happens: 5 players, a carried stake
C17_WitnessFive ==
  /\ Scored
  /\ game.playerCount = 5
  /\ \E k \in Holes :
       /\ IsWin(k) /\ ~game.holes[k].loneWolf
       /\ loop[k].wagerPerPlayer = 2
       /\ Entry(k).deltaByPlayer[ExpectedWolf(k)] = -6

\* C18: in a settled solo round with wager w and N players the role-holder
\* gets +(N-1)w when the result names the role side as winner and -(N-1)w
\* otherwise, and each field player -w or +w; 4 players, round 0, p4 alone
\* loses at w = 1 gives p4:-3, p1:+1, p2:+1, p3:+1.
C18_SoloRound ==
  Scored =>
    /\ \A k \in Holes : (IsWin(k) /\ game.holes[k].loneWolf) =>
         LET w == loop[k].wagerPerPlayer
             n == game.playerCount
         IN  /\ w >= 1
             /\ Entry(k).deltaByPlayer[ExpectedWolf(k)] = RoleSign(k) * (n - 1) * w
             /\ \A pid \in Ids \ {ExpectedWolf(k)} :
                  Entry(k).deltaByPlayer[pid] = (-RoleSign(k)) * w
    /\ ( /\ game.playerCount = 4
         /\ game.holes[1].loneWolf /\ game.holes[1].result = "OTHER"
         /\ ~(game.options.blindWolf /\ game.holes[1].blind) )
       => Entry(1).deltaByPlayer =
            [pid \in Ids |-> IF pid = "p4" THEN -3 ELSE 1]

C18_Witness ==
  /\ Scored
  /\ game.playerCount = 4
  /\ game.holes[1] = hole(NULL, TRUE, "OTHER", FALSE)
  /\ Entry(1).status = "OTHER_WIN"
  /\ Entry(1).deltaByPlayer["p4"] = -3 /\ Entry(1).deltaByPlayer["p1"] = 1

\* C19: holesScoredCount is the number of breakdown entries whose status is
\* not NOT_SCORED: tied holes count, holes with no result and team holes
\* without a usable partner do not.
C19_HolesScoredCount ==
  Scored =>
    /\ summary.holesScoredCount =
         Cardinality({k \in Holes : Entry(k).status # "NOT_SCORED"})
    /\ summary.holesScoredCount =
         Cardinality({k \in Holes :
                        /\ game.holes[k].result \in {"TIE", "WOLF", "OTHER"}
                        /\ ~InvalidTeamHole(k)})
    /\ \A k \in Holes :
         /\ game.holes[k].result = "TIE" => Entry(k).status # "NOT_SCORED"
         /\ game.holes[k].result = NULL => Entry(k).status = "NOT_SCORED"
         /\ InvalidTeamHole(k) => Entry(k).status = "NOT_SCORED"

C19_Witness ==
  /\ Scored
  /\ Len(summary.perHole) = 4
  /\ summary.holesScoredCount = 2
  /\ \E t \in Holes : IsTie(t)
  /\ \E w \in Holes : IsWin(w)
  /\ \E n \in Holes : game.holes[n].result = NULL
  /\ \E i \in Holes : InvalidTeamHole(i)

\* the units a player gains over the holes / gives up over the holes
gainedOver(pid) ==
  SumOver([k \in Holes |-> IF Entry(k).deltaByPlayer[pid] > 0
                           THEN Entry(k).deltaByPlayer[pid] ELSE 0], Holes)

givenUpOver(pid) ==
  SumOver([k \in Holes |-> IF Entry(k).deltaByPlayer[pid] < 0
                           THEN 0 - Entry(k).deltaByPlayer[pid] ELSE 0], Holes)

\* C20: for every player won and lost are non-negative, the net total is
\* won - lost, won is the sum of the player's positive hole deltas and lost
\* the sum of the magnitudes of the negative ones.
C20_WonLost ==
  Scored =>
    \A pid \in Ids :
      /\ summary.won[pid] >= 0
      /\ summary.lost[pid] >= 0
      /\ summary.totals[pid] = summary.won[pid] - summary.lost[pid]
      /\ summary.won[pid] = gainedOver(pid)
      /\ summary.lost[pid] = givenUpOver(pid)

C20_Witness ==
  /\ Scored
  /\ \E pid \in Ids :
       /\ summary.won[pid] > 0
       /\ summary.lost[pid] > 0
       /\ summary.totals[pid] < 0
       /\ summary.lost[pid] = givenUpOver(pid)

\* the wager computeScores uses for hole k when it has a winning side
WagerOfHole(k) ==
    (IF game.options.pushTies THEN Before(k).carryPerPlayer ELSE 0) + 1
  + (IF game.options.blindWolf /\ game.holes[k].blind THEN 1 ELSE 0)

\* hole k is played blind (option on) with a winning side, but its record
\* says it is not solo or names a partner
BlindNotSolo(k) ==
  /\ game.options.blindWolf
  /\ game.holes[k].blind
  /\ game.holes[k].result \in {"WOLF", "OTHER"}
  /\ (~game.holes[k].loneWolf \/ game.holes[k].partnerId # NULL)

\* C22: with blindWolf on, a blind record with a winning side that is not
\* marked solo or names a partner is scored as a solo round: the Wolf alone
\* against everybody else.
C22_BlindScoredAsSolo ==
  Scored =>
    \A k \in Holes : BlindNotSolo(k) =>
      /\ IsWin(k)
      /\ Entry(k).deltaByPlayer[ExpectedWolf(k)] =
           RoleSign(k) * (game.playerCount - 1) * WagerOfHole(k)
      /\ \A pid \in Ids \ {ExpectedWolf(k)} :
           Entry(k).deltaByPlayer[pid] = (-RoleSign(k)) * WagerOfHole(k)

\* the game with every blind flag cleared
withoutBlind(g) ==
  [g EXCEPT !.holes = [k \in DOMAIN g.holes |-> [g.holes[k] EXCEPT !.blind = FALSE]]]

HasBlindFlag == \E k \in DOMAIN game.holes : game.holes[k].blind

\* C23: with blindWolf off the summary does not depend on the holes' blind
\* flags: the game with all its blind flags cleared gets the same summary.
C23_BlindIgnoredWhenDisabled ==
  (Scored /\ ~game.options.blindWolf /\ HasBlindFlag) =>
    summary = computeScores(withoutBlind(game))

C23_Witness ==
  /\ Scored
  /\ ~game.options.blindWolf
  /\ \E k \in Holes : game.holes[k].blind /\ IsWin(k) /\ loop[k].wagerPerPlayer = 1
  /\ \E k \in Holes : game.holes[k].blind /\ IsTie(k)

\* hole j has a winning side recorded
Decisive(j) == game.holes[j].result \in {"WOLF", "OTHER"}

\* the tied holes before hole k that come after the last decisive hole before k
TiesSince(k) ==
  {j \in 1..(k - 1) :
     /\ game.holes[j].result = "TIE"
     /\ \A m \in (j + 1)..(k - 1) : ~Decisive(m)}

\* C29: with pushTies on, the wager of a settled hole is 1 + blind surcharge +
\* the number of tied holes since the previous decisive hole (or the start),
\* however many holes without a result lie in between.
C29_UnscoredKeepsCarry ==
  (Scored /\ game.options.pushTies) =>
    \A k \in Holes : IsWin(k) =>
      loop[k].wagerPerPlayer =
          1 + (IF game.options.blindWolf /\ game.holes[k].blind THEN 1 ELSE 0)
        + Cardinality(TiesSince(k))

C29_Witness ==
  /\ Scored /\ game.options.pushTies
  /\ Len(loop) = 4
  /\ game.holes[1].result = "TIE"
  /\ game.holes[2].result = NULL
  /\ game.holes[3].result = "TIE"
  /\ IsWin(4)
  /\ loop[4].wagerPerPlayer = 3

\* C30: for every player the net total of the summary is the sum of the
\* player's deltas over the breakdown entries.
C30_TotalsMatchBreakdown ==
  Scored =>
    \A pid \in Ids :
      summary.totals[pid] =
        SumOver([k \in Holes |-> Entry(k).deltaByPlayer[pid]], Holes)

C30_Witness ==
  /\ Scored
  /\ Cardinality({k \in Holes : IsWin(k)}) >= 3
  /\ \E pid \in Ids :
       /\ summary.totals[pid] < 0
       /\ \E k \in Holes : Entry(k).deltaByPlayer[pid] > 0

(* ---------------- the screens: SpecUI ---------------- *)
\* the hole records in memory and in the stored snapshot
AllHoleRecords ==
  {game.holes[k] : k \in DOMAIN game.holes}
    \cup {storage.game.holes[k] : k \in DOMAIN storage.game.holes}

\* C21: in every state the handlers of the game screen can reach (blind
\* toggle, lone toggle, partner button, result button, save, navigation with
\* discard), every hole with blind = true has loneWolf = true and
\* partnerId = null; turning blind on forces both whatever they were.
C21_BlindImpliesLone ==
  \A h \in AllHoleRecords : h.blind => (h.loneWolf /\ h.partnerId = NULL)

\* the current hole was turned blind after a partner had been chosen for it
C21_Witness ==
  /\ screen = SCREENS.game
  /\ currentHole(game).blind /\ currentHole(game).loneWolf
  /\ currentHole(game).partnerId = NULL
  /\ editBaselineOf(currentHole(game)) = <<"p3", FALSE, FALSE, "WOLF">>
  /\ currentHole(storage.game).blind

\* a game has been started: it is on the game screen or the scoreboard, or
\* its settings are being edited
StartedGame ==
  /\ game # noGame
  /\ (screen \in {SCREENS.game, SCREENS.scoreboard} \/ isEditingSettings)

\* C24: in every state of a started game, whatever the UI actions (choosing
\* another hole count on the setup screen included), the holes array is as
\* long as holeCount says.
C24_HolesLengthIsHoleCount ==
  StartedGame => Len(game.holes) = game.holeCount

\* C25: whenever the application calls computeScores the holes array has been
\* normalised to holeCount entries, the roster is not empty and holeCount >= 1.
C25_NormalisedBeforeScoring ==
  Scored =>
    /\ Len(game.holes) = game.holeCount
    /\ Len(loop) = game.holeCount
    /\ Len(game.players) >= 1
    /\ game.holeCount >= 1

\* the scoreboard of a game cut from 12 or more holes down to 8 after its
\* first hole was saved
C25_Witness ==
  /\ Scored
  /\ game.holeCount = 8 /\ Len(summary.perHole) = 8
  /\ game.currentHoleIndex = 1
  /\ game.holes[1].result = "TIE"
  /\ Entry(1).status = "TIE"

\* loadGame returns the snapshot
Accepted(st) == st.kind = "object" /\ st.hasPlayers /\ st.hasHoles

\* C26: Resume takes a game from storage only when the stored text is there,
\* parses, and has players and holes, and then takes it as stored; with any
\* other content the step from the load screen to the game screen does not
\* happen and the game in memory stays.
C26_LoadRejects ==
  [][ (screen = SCREENS.load /\ screen' = SCREENS.game) =>
        /\ Accepted(storage)
        /\ game' = renderGameScreen(ensureHolesLength(storage.game)) ]_vars

\* resumed from a snapshot whose holes array was empty
C26_Witness ==
  /\ screen = SCREENS.game
  /\ Accepted(storage)
  /\ storage.game.holes = <<>>
  /\ storage.game.holeCount = 16
  /\ Len(game.holes) = 16
  /\ game.players = storage.game.players

\* C27: in every state the UI handlers reach, a partnerId that is set differs
\* from the Wolf the rotation resolves for that hole.
C27_PartnerIsNotWolf ==
  \A k \in DOMAIN game.holes :
    game.holes[k].partnerId # NULL =>
      game.holes[k].partnerId # wolfOfHole(k - 1)

\* with 5 players p4, the Wolf of hole 1 in a 4-player game, is a partner
C27_Witness ==
  /\ screen = SCREENS.game
  /\ game.playerCount = 5
  /\ game.holes[1].partnerId = "p4"
  /\ wolfOfHole(0) = "p5"

\* C28: in every state the UI handlers reach a lone-wolf hole has no partner,
\* and a step on the game screen that starts with the current hole lone or
\* blind and stays on it leaves its partnerId alone.
C28_PartnerExcludesLone ==
  /\ [](\A h \in AllHoleRecords : h.loneWolf => h.partnerId = NULL)
  /\ [][ ( /\ screen = SCREENS.game /\ screen' = SCREENS.game
           /\ game'.currentHoleIndex = game.currentHoleIndex
           /\ (currentHole(game).loneWolf \/ currentHole(game).blind) )
         => currentHole(game').partnerId = currentHole(game).partnerId ]_vars

\* lone wolf was chosen after a partner had been picked: the partner is gone
C28_Witness ==
  /\ screen = SCREENS.game
  /\ currentHole(game).loneWolf /\ ~currentHole(game).blind
  /\ currentHole(game).partnerId = NULL
  /\ editBaselineOf(currentHole(game)) # NoSnapshot
  /\ editBaselineOf(currentHole(game))[1] # NULL

\* a step of one of the edit actions: partner, lone, blind, result, save hole
\* and navigation stay on the game screen, saving the settings leads from the
\* setup screen to the game screen, finishing stays on the scoreboard
EditStep ==
  \/ screen = SCREENS.game /\ screen' = SCREENS.game
  \/ screen = SCREENS.setup /\ screen' = SCREENS.game
  \/ screen = SCREENS.scoreboard /\ screen' = SCREENS.scoreboard

\* C31: once an edit action (partner, lone, blind, result, save hole,
\* navigation, settings save, finish) has completed, the snapshot in storage
\* equals the game in memory, the savedSnapshot and editBaseline markers of
\* every hole included.
C31_StorageEqualsGame ==
  [][ EditStep => storage' = stringify(game') ]_vars

\* C32: in every reachable state with a game the current hole index lies in
\* 0 .. holeCount - 1, also after the hole count was made smaller in the
\* settings.
C32_PointerInRange ==
  game # noGame =>
    /\ game.currentHoleIndex >= 0
    /\ game.currentHoleIndex <= game.holeCount - 1

\* the hole that was current before the step, as it is after the step
leftHole == game'.holes[game.currentHoleIndex + 1]

\* C33: when the score keeper leaves a hole with unsaved edits and confirms
\* the discard, the hole's partnerId, loneWolf, blind and result are back at
\* the edit baseline, the baseline is cleared, and the pointer is on the
\* target hole. (The other step that leaves a dirty hole is a successful
\* Save Hole, which keeps the four fields and locks them as savedSnapshot.)
C33_DiscardRestoresBaseline ==
  [][ ( /\ screen = SCREENS.game /\ screen' = SCREENS.game
        /\ isCurrentHoleDirty(game)
        /\ game'.currentHoleIndex # game.currentHoleIndex )
      => \/ /\ holeSnapshot(leftHole) = editBaselineOf(currentHole(game))
            /\ editBaselineOf(leftHole) = NoSnapshot
            /\ savedSnapshotOf(leftHole) = savedSnapshotOf(currentHole(game))
            /\ game'.currentHoleIndex \in {game.currentHoleIndex - 1,
                                           game.currentHoleIndex + 1}
            /\ storage' = stringify(game')
         \/ /\ holeSnapshot(leftHole) = holeSnapshot(currentHole(game))
            /\ editBaselineOf(leftHole) = NoSnapshot
            /\ savedSnapshotOf(leftHole) = holeSnapshot(currentHole(game))
            /\ game'.currentHoleIndex = game.currentHoleIndex + 1 ]_vars

\* a saved hole that was edited again (lone wolf instead of the partner, and
\* another result) and can be left for the next hole
C33_Witness ==
  /\ screen = SCREENS.game
  /\ isCurrentHoleDirty(game)
  /\ savedSnapshotOf(currentHole(game)) = editBaselineOf(currentHole(game))
  /\ editBaselineOf(currentHole(game))[1] # NULL
  /\ currentHole(game).loneWolf
  /\ currentHole(game).result # editBaselineOf(currentHole(game))[4]
  /\ Visited(game, game.currentHoleIndex + 1)

\* the holes next to the current one that the Prev and Next buttons lead to
Neighbours ==
  {i \in {game.currentHoleIndex - 1, game.currentHoleIndex + 1} :
     i >= 0 /\ i <= game.holeCount - 1}

\* C34: when the score keeper leaves a hole with unsaved edits and cancels the
\* discard prompt, nothing changes: the pointer, every hole record and the
\* snapshot in storage are what they were.
C34_CancelChangesNothing ==
  (screen = SCREENS.game /\ isCurrentHoleDirty(game)) =>
    \A index \in Neighbours :
      afterGoToHole(game, storage, index, FALSE) = [game |-> game, storage |-> storage]

\* a hole turned blind and not saved yet, with a hole to go to
C34_Witness ==
  /\ screen = SCREENS.game
  /\ isCurrentHoleDirty(game)
  /\ currentHole(game).blind
  /\ savedSnapshotOf(currentHole(game)) = NoSnapshot
  /\ Neighbours # {}
  /\ \A index \in Neighbours : Visited(game, index)

\* Save Hole accepts the current hole: it has a result and, unless tied, is
\* lone or has a partner other than the Wolf
Saveable ==
  LET h == currentHole(game)
  IN  /\ h.result # NULL
      /\ h.result # "TIE" => (h.loneWolf \/ (h.partnerId # NULL
                                              /\ h.partnerId # wolfOfHole(game.currentHoleIndex)))

\* C35: Save Hole succeeds only on a hole with a result that, when decisive,
\* is lone or has a partner other than the Wolf. When it fails the pointer
\* stays and the hole is not marked saved; when it succeeds the hole is not
\* dirty, computeScores gives it a status other than NOT_SCORED, and the
\* pointer moves on by one unless the hole is the last.
C35_SaveHole ==
  screen = SCREENS.game =>
    LET after == afterSaveHole
        k     == game.currentHoleIndex + 1
    IN  /\ after.ok <=> Saveable
        /\ ~after.ok =>
              /\ after.game.currentHoleIndex = game.currentHoleIndex
              /\ savedSnapshotOf(after.game.holes[k]) = savedSnapshotOf(game.holes[k])
        /\ after.ok =>
              /\ savedSnapshotOf(after.game.holes[k]) = holeSnapshot(after.game.holes[k])
              /\ editBaselineOf(after.game.holes[k]) = NoSnapshot
              /\ computeScores(after.game).perHole[k].status # "NOT_SCORED"
              /\ after.game.currentHoleIndex =
                    IF game.currentHoleIndex = game.holeCount - 1
                    THEN game.currentHoleIndex ELSE game.currentHoleIndex + 1

\* a team hole won by the Wolf and the partner was saved, and the next hole
\* is open
C35_Witness ==
  /\ screen = SCREENS.game
  /\ game.currentHoleIndex = 1
  /\ game.holes[1].result = "WOLF" /\ game.holes[1].partnerId # NULL
  /\ savedSnapshotOf(game.holes[1]) = holeSnapshot(game.holes[1])
  /\ storage = stringify(game)

\* C36: Save Settings on a game in progress keeps the scorecard: every hole
\* below the new hole count keeps its partnerId, loneWolf and result, the
\* player ids stay in their order, and with blindWolf off afterwards no hole
\* is blind.
C36_SettingsKeepScorecard ==
  [][ (screen = SCREENS.setup /\ isEditingSettings /\ screen' = SCREENS.game)
      => /\ Len(game'.holes) = game'.holeCount
         /\ \A k \in DOMAIN game'.holes :
              k \in DOMAIN game.holes =>
                /\ game'.holes[k].partnerId = game.holes[k].partnerId
                /\ game'.holes[k].loneWolf = game.holes[k].loneWolf
                /\ game'.holes[k].result = game.holes[k].result
         /\ playerIdsOf(game') = playerIdsOf(game)
         /\ ~game'.options.blindWolf =>
              \A k \in DOMAIN game'.holes : ~game'.holes[k].blind ]_vars

\* the first hole was saved as a blind lone Wolf win, and the settings were
\* saved with blindWolf off afterwards: the hole is still a lone Wolf win
C36_Witness ==
  /\ screen = SCREENS.game
  /\ ~game.options.blindWolf
  /\ savedSnapshotOf(game.holes[1]) = <<NULL, TRUE, TRUE, "WOLF">>
  /\ game.holes[1].loneWolf /\ game.holes[1].result = "WOLF"
  /\ ~game.holes[1].blind

\* C37: while the settings of a game in progress are edited, a step that
\* stays on the setup screen or goes back to the load screen (anything but
\* Save Settings; Reset and a reload drop the game) leaves the game's hole
\* count, options, players and holes, and the snapshot in storage, unchanged.
C37_OnlySaveSettingsApplies ==
  [][ ( /\ screen = SCREENS.setup /\ isEditingSettings
        /\ screen' \in {SCREENS.setup, SCREENS.load}
        /\ game' # noGame )
      => /\ game'.holeCount = game.holeCount
         /\ game'.options = game.options
         /\ game'.players = game.players
         /\ game'.holes = game.holes
         /\ storage' = storage ]_vars

\* what hole k of the trace brought each player
PotDelta(k, pid) == loop[k].totals[pid] - loop[k].before[pid]

\* C38: in the engines that pool the losers' stakes (points in sixths), with
\* 4 and 5 players, on every team or lone hole with a winning side the pot
\* divides evenly: the remainder is 0, the winners receive equal shares, and
\* the hole's credits equal its debits.
C38_PotDividesEvenly ==
  screen = SCREENS.scoreboard =>
    \A k \in DOMAIN loop :
      loop[k].status \in {"team", "lone"} =>
        /\ loop[k].pot.remainder = 0
        /\ \A p, q \in Range(playerIdsOf(game)) :
             (PotDelta(k, p) > 0 /\ PotDelta(k, q) > 0) => PotDelta(k, p) = PotDelta(k, q)
        /\ SumOver([pid \in Range(playerIdsOf(game)) |-> PotDelta(k, pid)],
                   Range(playerIdsOf(game))) = 0

\* C39: once the activate listener of the worker has completed, every cache
\* whose name starts with "wolf-" is the current static cache or the current
\* pages cache, and no step of the worker or the page creates or deletes a
\* cache whose name does not start with "wolf-".
C39_ActivateDeletesStaleCaches ==
  /\ [](sw.state = "activated" =>
          \A k \in caches :
            startsWith(k, <<"w", "o", "l", "f", "-">>) => k \in {CACHE_STATIC, CACHE_PAGES})
  /\ [][\A k \in caches \cup caches' :
           ~startsWith(k, <<"w", "o", "l", "f", "-">>) => (k \in caches <=> k \in caches')]_vars

\* the worker is activated after it deleted a cache, the caches without the
\* prefix are still there and the page has filled the current pages cache
C39_Witness ==
  /\ sw.state = "activated"
  /\ "delete" \in sw.log
  /\ <<"w", "o", "l", "f", "p", "a", "c", "k">> \in caches
  /\ <<"f", "o", "n", "t", "s">> \in caches
  /\ CACHE_PAGES \in caches

\* C40: the worker calls skipWaiting only when it has received a SKIP_WAITING
\* message, the page posts that message only when the score keeper has tapped
\* Update Now or confirmed to apply the update, the worker replaces an active
\* worker only when it has called skipWaiting, and the page reloads only when
\* the controller has changed.
C40_UpdateOnlyOnRequest ==
  /\ "skipWaiting" \in sw.log => "recvSkipWaiting" \in sw.log
  /\ sw.skipWaiting => "skipWaiting" \in sw.log
  /\ "recvSkipWaiting" \in sw.log => "postSkipWaiting" \in sw.log
  /\ "postSkipWaiting" \in sw.log => ("tap" \in sw.log \/ "confirm" \in sw.log)
  /\ "takeover" \in sw.log => "skipWaiting" \in sw.log
  /\ "reload" \in sw.log => "controllerchange" \in sw.log

\* the score keeper tapped Update Now, the worker replaced the previous one
\* and the page reloaded
C40_Witness ==
  /\ "tap" \in sw.log
  /\ "takeover" \in sw.log
  /\ "reload" \in sw.log
  /\ sw.state = "activated"

====
